---------------------------- MODULE Spec2Model ----------------------------
(***************************************************************************)
(* Model of the CTRL+F Pro search engine (src/src/scripts/search-engine.js) *)
(* and of the multi-tab search of src/src/scripts/background.js.           *)
(*                                                                         *)
(* Spec        one findMatches / countMatches call, step by step           *)
(* SpecLive    the same under the fairness of a synchronous call           *)
(* SpecReuse   one prepare, then one scan per text node                    *)
(* SpecShared  scan calls sharing one prepared state, steps in any order   *)
(* SpecTabs    'searchAll' messages handled by the background worker       *)
(*                                                                         *)
(* A JavaScript string is a sequence of UTF-16 code units (naturals).      *)
(* Pointers and offsets are zero-based as in the source; At(s, k) reads    *)
(* the code unit at zero-based position k.                                 *)
(***************************************************************************)
EXTENDS Integers, Sequences, FiniteSets, TLC

VARIABLES
    pc,          \* position of the caller: which call is running / has returned
    pattern,     \* prepare's argument `pattern` (the raw query) or Absent
    options,     \* findMatches' argument `options`: an object or NullOptions
    searchPattern, \* buildLPS's argument (prepare's local searchPattern)
    lps,         \* buildLPS local: the table under construction
    len,         \* buildLPS local: length of the previous longest prefix suffix
    bi,          \* buildLPS local `i`
    state,       \* value returned by prepare: NullState or the prepared record
    text,        \* scan's argument `text` or Absent
    searchText,  \* scan local: case-normalized view of text
    i,           \* scan local: index in text
    j,           \* scan local: index in pattern
    matches,     \* scan local: matches collected so far
    result,      \* value returned by scan / findMatches
    total,       \* countMatches' { total }, -1 while countMatches has not returned
    lpsIters,    \* number of iterations of buildLPS's while loop so far
    scanIters,   \* number of iterations of the current scan's while loop so far
    reused,      \* the prepared state has been passed to a second scan call
    calls,       \* scan calls sharing `state`: position, argument, return value
    frames,      \* the locals of those calls: text, searchText, i, j, matches
    globalQuery, \* background.js: globalQuery
    globalOptions, \* background.js: globalOptions
    tabResults,  \* background.js: the Map tabResults, tab id -> entry
    requests,    \* background.js: the 'searchAll' messages being handled
    pageCount,   \* per tab and search, what the page's 'count' action returns
    dom,         \* content.js: the elements of document.body and their child nodes
    currentMatches,    \* content.js: currentMatches
    currentIndex,      \* content.js: currentIndex
    highlightElements, \* content.js: highlightElements
    searchOptions,     \* content.js: searchOptions
    overlayVisible,    \* content.js: overlayVisible
    overlayDisplay,    \* style.display of the overlay element, "absent" without one
    message,     \* the message the content script's listener received last
    answered,    \* the sendResponse calls made for that message
    closedTabs,  \* the tabs chrome.tabs.onRemoved has fired for
    injections,  \* per tab, how many times content.js has been run in it
    ensures,     \* the operations that called ensureContentScript: position, tab
    now,         \* the time in the page of the overlay, in ms
    inputValue,  \* overlay.js: value of the search input
    searchTimeout, \* overlay.js: searchTimeout, the pending timer or NoTimer
    lastInput,   \* time of the last 'input' event, -1 before the first
    inBurst,     \* that event came less than 150 ms after the one before it
    performed,   \* the performSearch calls the timer made since the last 'input' event
    listeners,   \* the scripts of the page in the order they added their onMessage listener
    searches,    \* the performSearch calls of the overlay in the order made, with their position
    counterText  \* overlay.js: text of the counter element

\* scan calls that share one prepared state
sharedVars == <<calls, frames>>

\* the background service worker and the pages of the tabs
tabVars == <<globalQuery, globalOptions, tabResults, requests, pageCount>>

\* the content script of one page
contentVars == <<dom, currentMatches, currentIndex, highlightElements,
                 searchOptions, overlayVisible, overlayDisplay, message, answered>>

\* the browser around the extension's scripts
\* the overlay's page: time, the search input and its timer, the listeners
overlayVars == <<now, inputValue, searchTimeout, lastInput, inBurst, performed,
                 listeners>>

\* the searches of the overlay that are under way, and its counter
searchVars == <<searches, counterText>>

browserVars == <<closedTabs, injections, ensures, overlayVars, searchVars>>

\* variables the engine's own calls leave alone
otherVars == <<reused, sharedVars, tabVars, contentVars, browserVars>>

\* the variables of a single findMatches or countMatches call
engineVars == <<pc, pattern, options, searchPattern, lps, len, bi, state, text,
                searchText, i, j, matches, result, total, lpsIters, scanIters,
                reused>>

vars == <<pc, pattern, options, searchPattern, lps, len, bi, state, text,
          searchText, i, j, matches, result, total, lpsIters, scanIters, otherVars>>

-----------------------------------------------------------------------------
(* Bounds of the model *)

\* longest fragment drawn from Alphabet
MaxTextLen == 3
\* longest raw query drawn from Alphabet
MaxQueryLen == 2

\* Code units the bounded inputs are drawn from:
\* 32 ' ' (white space, boundary), 65 'A', 97 'a' (word characters),
\* 304 U+0130 (a boundary whose lower-casing is two code units long)
Alphabet == {32, 65, 97, 304}

\* null / undefined argument (no code unit is negative)
Absent == << -1 >>

\* prepare's null return value
NullState == [absent |-> TRUE]

\* a null `options` argument
NullOptions == [null |-> TRUE]

\* the outcome of a call that throws
Threw == [threw |-> TRUE]

RECURSIVE SeqsUpTo(_, _)
SeqsUpTo(S, k) ==
    IF k = 0 THEN {<<>>}
    ELSE LET shorter == SeqsUpTo(S, k - 1)
         IN shorter \cup {Append(s, c) : s \in {t \in shorter : Len(t) = k - 1}, c \in S}

\* The examples of the documentation, as code units
ExABABAB == <<65, 66, 65, 66, 65, 66>>
ExABA == <<65, 66, 65>>
ExAAAA == <<65, 65, 65, 65>>
ExAA == <<65, 65>>
\* "Hello hello HELLO"
ExHello3 == <<72, 101, 108, 108, 111, 32, 104, 101, 108, 108, 111, 32, 72, 69, 76, 76, 79>>
\* "hello"
ExHello == <<104, 101, 108, 108, 111>>
\* "cat catalog category"
ExCats == <<99, 97, 116, 32, 99, 97, 116, 97, 108, 111, 103, 32,
            99, 97, 116, 101, 103, 111, 114, 121>>
\* "cat"
ExCat == <<99, 97, 116>>
\* "FOO bar"
ExFOObar == <<70, 79, 79, 32, 98, 97, 114>>
\* "foo"
ExFoo == <<102, 111, 111>>
\* "ab", "abc"
ExAb == <<97, 98>>
ExAbc == <<97, 98, 99>>
\* "a_a 1a a": word characters '_' and a digit next to a match
ExUnderscore == <<97, 95, 97, 32, 49, 97, 32, 97>>
\* "aaaab", "aaab": a mismatch after a partial match that is itself a prefix
ExAaaab == <<97, 97, 97, 97, 98>>
ExAaab == <<97, 97, 97, 98>>
\* "aabaaa": a failure table whose last entry needs a non-zero fall back
ExAabaaa == <<97, 97, 98, 97, 97, 97>>
\* "aacaaab": "aaab" falls back twice at 'c' without advancing in the text
ExAacaaab == <<97, 97, 99, 97, 97, 97, 98>>
\* "\u0130\u0130\u0130a", "\u0130\u0130\u0130": lower-casing doubles the length
ExIIIa == <<304, 304, 304, 97>>
ExIII == <<304, 304, 304>>

ExamplePairs ==
    { <<ExABABAB, ExABA>>, <<ExAAAA, ExAA>>, <<ExHello3, ExHello>>,
      <<ExCats, ExCat>>, <<ExFOObar, ExFoo>>, <<ExAb, ExAbc>>,
      <<ExUnderscore, <<97>> >>, <<ExAaaab, ExAaab>>, <<ExAabaaa, ExAabaaa>>,
      <<ExAacaaab, ExAaab>>, <<ExIIIa, ExIII>> }

Texts == SeqsUpTo(Alphabet, MaxTextLen) \cup {Absent}
Queries == SeqsUpTo(Alphabet, MaxQueryLen) \cup {Absent}

\* (text, query) pairs the caller may pass
Inputs == (Texts \X Queries) \cup ExamplePairs

OptionSets == [caseSensitive : BOOLEAN, wholeWord : BOOLEAN]

\* the values a caller may pass as options
OptionArgs == OptionSets \cup {NullOptions}

-----------------------------------------------------------------------------
(* JavaScript built-ins used by the engine *)

\* s[k] : the code unit at zero-based k, or -1 (undefined) outside the string
At(s, k) == IF k >= 0 /\ k < Len(s) THEN s[k + 1] ELSE -1

\* String.prototype.slice(from, to) for 0 <= from <= to: clamps to the string
slice(s, from, to) ==
    SubSeq(s, from + 1, IF to < Len(s) THEN to ELSE Len(s))

\* White space and line terminators stripped by String.prototype.trim
IsWhiteSpace(c) ==
    c \in {9, 10, 11, 12, 13, 32, 160, 5760, 8232, 8233, 8239, 8287, 12288, 65279}
    \/ (c >= 8192 /\ c <= 8202)

RECURSIVE trimStart(_)
trimStart(s) ==
    IF s # <<>> /\ IsWhiteSpace(Head(s)) THEN trimStart(Tail(s)) ELSE s

RECURSIVE trimEnd(_)
trimEnd(s) ==
    IF s # <<>> /\ IsWhiteSpace(s[Len(s)])
    THEN trimEnd(SubSeq(s, 1, Len(s) - 1)) ELSE s

\* Variant of trim that strips nothing
trimNothing(s) == s

\* String.prototype.trim
trim(s) == trimEnd(trimStart(s))

\* Lower-casing of one code unit (Unicode default case conversion, restricted
\* to ASCII and to U+0130, whose lower case is the two units U+0069 U+0307)
LowerUnit(c) ==
    IF c >= 65 /\ c <= 90 THEN <<c + 32>>
    ELSE IF c = 304 THEN <<105, 775>>
    ELSE <<c>>

\* String.prototype.toLowerCase
RECURSIVE toLowerCase(_)
toLowerCase(s) ==
    IF s = <<>> THEN <<>> ELSE LowerUnit(Head(s)) \o toLowerCase(Tail(s))

\* !x for a string argument: null, undefined and "" are falsy
Falsy(s) == s = Absent \/ s = <<>>

-----------------------------------------------------------------------------
(* SearchEngine.isWordBoundary *)

isWordBoundary(ch) ==
    IF ch = -1 THEN TRUE
    ELSE ~( (ch >= 65 /\ ch <= 90)
            \/ (ch >= 97 /\ ch <= 122)
            \/ (ch >= 48 /\ ch <= 57)
            \/ ch = 95 )

-----------------------------------------------------------------------------
(* The search engine before any call *)

EngineInit ==
    /\ pc = "idle"
    /\ pattern = Absent
    /\ options = [caseSensitive |-> FALSE, wholeWord |-> FALSE]
    /\ searchPattern = <<>>
    /\ lps = <<>>
    /\ len = 0
    /\ bi = 0
    /\ state = NullState
    /\ text = Absent
    /\ searchText = <<>>
    /\ i = 0
    /\ j = 0
    /\ matches = <<>>
    /\ result = <<>>
    /\ total = -1
    /\ lpsIters = 0
    /\ scanIters = 0
    /\ reused = FALSE

\* the scan calls that may share a prepared state
Calls == {1, 2}

\* a call not made yet, and locals not yet in use
NoCall == [pc |-> "none", text |-> <<>>, result |-> <<>>]
NoFrame == [text |-> <<>>, searchText |-> <<>>, i |-> 0, j |-> 0, matches |-> <<>>]

SharedInit ==
    /\ calls = [c \in Calls |-> NoCall]
    /\ frames = [c \in Calls |-> NoFrame]

\* the open tabs, and those getSearchableTabs filters out by their URL
OpenTabs == {1, 2, 3}
RestrictedTabs == {3}

\* the queries the overlay may send
TabSearches == {"cat", "dog"}

\* the options a message to the background may carry: none, or the overlay's
\* options with case sensitivity switched on
BackgroundOptions ==
    {NullOptions,
     [smartMode |-> TRUE, caseSensitive |-> TRUE, wholeWord |-> FALSE]}

\* the 'searchAll' messages that may be in flight together
Requests == {1, 2}

\* the most occurrences of a search in one page
MaxCount == 1

\* an empty Map
EmptyMap == [t \in {} |-> 0]

\* a 'searchAll' message not sent yet
NoRequest == [pc |-> "none"]

\* the background service worker after start-up
BackgroundInit ==
    /\ globalQuery = ""
    /\ globalOptions = [smartMode |-> TRUE, caseSensitive |-> FALSE,
                        wholeWord |-> FALSE]
    /\ tabResults = EmptyMap
    /\ requests = [r \in Requests |-> NoRequest]

\* no page contains anything that is searched for
PagesBlank == pageCount = [t \in OpenTabs |-> [q \in TabSearches |-> 0]]

\* the pages of the searchable tabs contain each search up to MaxCount times;
\* the restricted tab's page contains each of them once
PagesInit ==
    pageCount \in {pc0 \in [OpenTabs -> [TabSearches -> 0..MaxCount]] :
                     \A t \in RestrictedTabs, q \in TabSearches : pc0[t][q] = 1}

\* no timer is pending
NoTimer == [due |-> -1]

\* the overlay as overlay.js leaves it when it is loaded, after content.js
\* the counter as createOverlay writes it
ZeroResults == [text |-> "0 results"]

\* no search made yet
SearchesIdle == searches = <<>> /\ counterText = ZeroResults

OverlayIdle ==
    /\ now = 0
    /\ inputValue = ""
    /\ searchTimeout = NoTimer
    /\ lastInput = -1
    /\ inBurst = FALSE
    /\ performed = <<>>
    /\ listeners = <<"content", "overlay">>

\* the operations of the background that may run together
Callers == {1, 2}

\* an operation that has not started
NoEnsure == [pc |-> "idle"]

\* every tab is open, none has the content script, nothing runs
BrowserInit ==
    /\ closedTabs = {}
    /\ injections = [t \in {1, 2, 3} |-> 0]
    /\ ensures = [c \in Callers |-> NoEnsure]
    /\ OverlayIdle
    /\ SearchesIdle

\* no message yet
NoMessage == [action |-> "none"]

\* the content script after it was loaded (content.js 13-20)
ContentLoaded ==
    /\ currentMatches = <<>>
    /\ currentIndex = -1
    /\ highlightElements = <<>>
    /\ searchOptions = [caseSensitive |-> FALSE, wholeWord |-> FALSE]
    /\ overlayVisible = FALSE
    /\ message = NoMessage
    /\ answered = <<>>

\* a page with an empty body and no overlay
ContentBlank == ContentLoaded /\ dom = <<>> /\ overlayDisplay = "absent"

Init == EngineInit /\ SharedInit /\ BackgroundInit /\ BrowserInit /\ PagesBlank /\ ContentBlank

-----------------------------------------------------------------------------
(* SearchEngine.buildLPS *)

\* Variant of lpsFallback that restarts the comparison at 0
lpsFallbackToZero(tbl, l) == 0

\* buildLPS: the comparison pointer after a mismatch with len # 0
lpsFallback(tbl, l) == At(tbl, l - 1)

\* the body of buildLPS's while loop on pattern p with locals lps = tbl,
\* len = l, i = k: the locals after the iteration
lpsBody(p, tbl, l, k) ==
    IF At(p, k) = At(p, l)
    THEN [lps |-> [tbl EXCEPT ![k + 1] = l + 1], len |-> l + 1, i |-> k + 1]
    ELSE IF l # 0
         THEN [lps |-> tbl, len |-> lpsFallback(tbl, l), i |-> k]
         ELSE [lps |-> [tbl EXCEPT ![k + 1] = 0], len |-> l, i |-> k + 1]

\* buildLPS's while loop run to its end: the returned table
RECURSIVE lpsLoop(_, _, _, _)
lpsLoop(p, tbl, l, k) ==
    IF k < Len(p)
    THEN LET nx == lpsBody(p, tbl, l, k) IN lpsLoop(p, nx.lps, nx.len, nx.i)
    ELSE tbl

\* buildLPS(pattern) as a function
buildLPS(p) == lpsLoop(p, [k \in 1..Len(p) |-> 0], 0, 1)

-----------------------------------------------------------------------------
(* SearchEngine.findMatches / SearchEngine.prepare *)

\* prepare's first guard: !pattern || pattern.trim().length === 0
emptyQuery(pat) == Falsy(pat) \/ Len(trim(pat)) = 0

\* Variant of searchPatternOf that lower-cases whatever the options say
searchPatternOfLowerAlways(query, caseSensitive) == toLowerCase(query)

\* prepare's searchPattern: the trimmed query, lower-cased unless caseSensitive
searchPatternOf(query, caseSensitive) ==
    IF caseSensitive THEN query ELSE toLowerCase(query)

\* Variant of optionsPassed in which findMatches calls prepare(pattern) only
optionsDropped(o) == [caseSensitive |-> FALSE, wholeWord |-> FALSE]

\* findMatches hands its options argument on to prepare
optionsPassed(o) == o

\* prepare(pattern, options) as a function: null, the prepared state, or Threw
\* (destructuring null options throws a TypeError)
prepareFn(pat, o) ==
    IF emptyQuery(pat) THEN NullState
    ELSE IF o = NullOptions THEN Threw
    ELSE LET query == trim(pat)
             sp == searchPatternOf(query, o.caseSensitive)
         IN IF Len(sp) = 0 THEN NullState
            ELSE [original |-> query,
                  searchPattern |-> sp,
                  lps |-> buildLPS(sp),
                  m |-> Len(sp),
                  caseSensitive |-> o.caseSensitive,
                  wholeWord |-> o.wholeWord]

\* prepare(pat, o) runs up to the call of buildLPS, to its null return, or to
\* the TypeError of destructuring null options
prepareCall(pat, o) ==
    /\ pattern' = pat
    /\ IF emptyQuery(pat)
       THEN /\ state' = NullState
            /\ pc' = "prepared"
            /\ UNCHANGED <<searchPattern, lps, len, bi>>
       ELSE IF o = NullOptions
       THEN /\ pc' = "prepareThrew"
            /\ UNCHANGED <<state, searchPattern, lps, len, bi>>
       ELSE LET sp == searchPatternOf(trim(pat), o.caseSensitive)
            IN IF Len(sp) = 0
               THEN /\ state' = NullState
                    /\ pc' = "prepared"
                    /\ UNCHANGED <<searchPattern, lps, len, bi>>
               ELSE /\ searchPattern' = sp
                    /\ lps' = [k \in 1..Len(sp) |-> 0]
                    /\ len' = 0
                    /\ bi' = 1
                    /\ pc' = "buildLPS"
                    /\ UNCHANGED state

\* findMatches(text, pattern, options) is called and runs prepare up to the
\* call of buildLPS (or to prepare's null return)
prepare ==
    /\ pc = "idle"
    /\ \E in \in Inputs, o \in OptionArgs :
         /\ text' = in[1]
         /\ options' = o
         /\ prepareCall(in[2], optionsPassed(o))
    /\ UNCHANGED <<searchText, i, j, matches, result, total, lpsIters, scanIters>>
    /\ UNCHANGED otherVars

\* one iteration of buildLPS's while loop
buildLPSStep ==
    /\ pc = "buildLPS"
    /\ bi < Len(searchPattern)
    /\ LET nx == lpsBody(searchPattern, lps, len, bi)
       IN /\ lps' = nx.lps
          /\ len' = nx.len
          /\ bi' = nx.i
    /\ lpsIters' = lpsIters + 1
    /\ UNCHANGED <<pc, pattern, options, searchPattern, state, text, searchText,
                   i, j, matches, result, total, scanIters>>
    /\ UNCHANGED otherVars

\* buildLPS returns the table and prepare returns the prepared state
buildLPSReturn ==
    /\ pc = "buildLPS"
    /\ ~(bi < Len(searchPattern))
    /\ state' = [original |-> trim(pattern),
                 searchPattern |-> searchPattern,
                 lps |-> lps,
                 m |-> Len(searchPattern),
                 caseSensitive |-> optionsPassed(options).caseSensitive,
                 wholeWord |-> optionsPassed(options).wholeWord]
    /\ pc' = "prepared"
    /\ UNCHANGED <<pattern, options, searchPattern, lps, len, bi, text, searchText,
                   i, j, matches, result, total, lpsIters, scanIters>>
    /\ UNCHANGED otherVars

-----------------------------------------------------------------------------
(* SearchEngine.scan *)

\* Variant of scanGuard that forgets the check of state
scanGuardTextOnly(t, st) == Falsy(t)

\* scan's first guard: !text || !state
scanGuard(t, st) == Falsy(t) \/ st = NullState

\* Variant of searchTextOf that forgets to lower-case the fragment
searchTextOfRaw(t, caseSensitive) == t

\* scan's searchText: the fragment, lower-cased unless caseSensitive
searchTextOf(t, caseSensitive) ==
    IF caseSensitive THEN t ELSE toLowerCase(t)

\* Variant of stateRead in which scan normalizes the stored query in place
stateNormalized(st) ==
    IF st = NullState THEN st ELSE [st EXCEPT !.original = toLowerCase(st.original)]

\* scan destructures state and only reads it: the state object after the call
stateRead(st) == st

\* Variant of freshMatches in which the array outlives the call
keptMatches(ms) == ms

\* const matches = []: every call starts from its own empty array
freshMatches(ms) == <<>>

\* Variant of validMatch that checks only the character before the match
validMatchBeforeOnly(t, st, n, matchIndex) ==
    IF st.wholeWord
    THEN isWordBoundary(IF matchIndex > 0 THEN At(t, matchIndex - 1) ELSE -1)
    ELSE TRUE

\* the whole word check of a full match at matchIndex (n = searchText.length)
validMatch(t, st, n, matchIndex) ==
    IF st.wholeWord
    THEN LET charBefore == IF matchIndex > 0 THEN At(t, matchIndex - 1) ELSE -1
             charAfter == IF matchIndex + st.m < n
                          THEN At(t, matchIndex + st.m) ELSE -1
         IN isWordBoundary(charBefore) /\ isWordBoundary(charAfter)
    ELSE TRUE

\* the match object pushed for a full match at matchIndex
matchAt(t, st, matchIndex) ==
    [text |-> slice(t, matchIndex, matchIndex + st.m),
     index |-> matchIndex,
     length |-> st.m]

\* Variant of push that puts the new match first (unshift)
pushFront(ms, match) == <<match>> \o ms

\* matches.push(match)
push(ms, match) == Append(ms, match)

\* Variant of afterMatch that leaves the pattern pointer at the pattern's end
afterMatchStay(st, jj) == jj

\* Variant of afterMatch that restarts the pattern (no overlapping matches)
afterMatchRestart(st, jj) == 0

\* the pattern pointer after a full match
afterMatch(st, jj) == At(st.lps, jj - 1)

\* Variant of afterMismatch that restarts the pattern instead of falling back
afterMismatchRestart(st, jj) == 0

\* Variant of afterMismatch that leaves the pattern pointer where it is
afterMismatchStay(st, jj) == jj

\* the pattern pointer after a mismatch with jj # 0
afterMismatch(st, jj) == At(st.lps, jj - 1)

\* Variant of scanBody in which a candidate rejected by the whole word check
\* restarts the pattern instead of continuing from the failure table
scanBodyRejectRestarts(t, st, sT, ii, jj, ms) ==
    LET n == Len(sT)
        eq == At(sT, ii) = At(st.searchPattern, jj)
        i1 == IF eq THEN ii + 1 ELSE ii
        j1 == IF eq THEN jj + 1 ELSE jj
    IN IF j1 = st.m
       THEN IF validMatch(t, st, n, i1 - j1)
            THEN [i |-> i1, j |-> afterMatch(st, j1),
                  matches |-> push(ms, matchAt(t, st, i1 - j1))]
            ELSE [i |-> i1, j |-> 0, matches |-> ms]
       ELSE IF i1 < n /\ At(sT, i1) # At(st.searchPattern, j1)
            THEN IF j1 # 0
                 THEN [i |-> i1, j |-> afterMismatch(st, j1), matches |-> ms]
                 ELSE [i |-> i1 + 1, j |-> j1, matches |-> ms]
            ELSE [i |-> i1, j |-> j1, matches |-> ms]

\* the body of scan's while loop on fragment t, prepared state st and locals
\* searchText = sT, i = ii, j = jj, matches = ms: the locals after the iteration
scanBody(t, st, sT, ii, jj, ms) ==
    LET n == Len(sT)
        eq == At(sT, ii) = At(st.searchPattern, jj)
        i1 == IF eq THEN ii + 1 ELSE ii
        j1 == IF eq THEN jj + 1 ELSE jj
    IN IF j1 = st.m
       THEN [i |-> i1,
             j |-> afterMatch(st, j1),
             matches |-> IF validMatch(t, st, n, i1 - j1)
                         THEN push(ms, matchAt(t, st, i1 - j1))
                         ELSE ms]
       ELSE IF i1 < n /\ At(sT, i1) # At(st.searchPattern, j1)
            THEN IF j1 # 0
                 THEN [i |-> i1, j |-> afterMismatch(st, j1), matches |-> ms]
                 ELSE [i |-> i1 + 1, j |-> j1, matches |-> ms]
            ELSE [i |-> i1, j |-> j1, matches |-> ms]

\* scan's while loop run to its end: the returned matches
RECURSIVE scanLoop(_, _, _, _, _, _)
scanLoop(t, st, sT, ii, jj, ms) ==
    IF ii < Len(sT)
    THEN LET nx == scanBody(t, st, sT, ii, jj, ms)
         IN scanLoop(t, st, sT, nx.i, nx.j, nx.matches)
    ELSE ms

\* the (i, j) pointer states at the head of scan's loop, from (ii, jj) to the end
RECURSIVE pointerLoop(_, _, _, _, _, _)
pointerLoop(t, st, sT, ii, jj, ms) ==
    <<<<ii, jj>>>> \o
        (IF ii < Len(sT)
         THEN LET nx == scanBody(t, st, sT, ii, jj, ms)
              IN pointerLoop(t, st, sT, nx.i, nx.j, nx.matches)
         ELSE <<>>)

\* the (i, j) pointer states a scan that enters its loop goes through
scanPointers(t, st) ==
    pointerLoop(t, st, searchTextOf(t, st.caseSensitive), 0, 0, <<>>)

\* scan(text, state) as a function of its two arguments
scanFn(t, st) ==
    IF scanGuard(t, st) THEN <<>>
    ELSE LET sT == searchTextOf(t, st.caseSensitive)
         IN IF st.m > Len(sT) THEN <<>>
            ELSE scanLoop(t, st, sT, 0, 0, <<>>)

\* findMatches(text, pattern, options) throws (in its call of prepare)
findMatchesThrows(pat, o) == prepareFn(pat, o) = Threw

\* findMatches(text, pattern, options) as a function, where it does not throw
findMatchesFn(t, pat, o) == scanFn(t, prepareFn(pat, o))

\* countMatches(text, query, options) as a function, where it does not throw
countMatchesFn(t, pat, o) == [total |-> Len(findMatchesFn(t, pat, o))]

\* scan(t, state) is called: the guards and the locals before the loop; the
\* locals of an earlier call are gone. Destructuring a null state, or reading a
\* property of a null text, throws.
scanCall(t) ==
    /\ text' = t
    /\ state' = stateRead(state)
    /\ scanIters' = 0
    /\ matches' = freshMatches(matches)
    /\ i' = 0
    /\ j' = 0
    /\ IF scanGuard(t, state)
       THEN /\ result' = <<>>
            /\ searchText' = <<>>
            /\ pc' = "scanned"
       ELSE IF state = NullState \/ t = Absent
       THEN /\ pc' = "threw"
            /\ searchText' = <<>>
            /\ UNCHANGED result
       ELSE LET st == searchTextOf(t, state.caseSensitive)
            IN /\ searchText' = st
               /\ IF state.m > Len(st)
                  THEN /\ result' = <<>>
                       /\ pc' = "scanned"
                  ELSE /\ pc' = "scan"
                       /\ UNCHANGED result
    /\ UNCHANGED <<pattern, options, searchPattern, lps, len, bi, total, lpsIters>>

\* findMatches calls scan(text, state) with the state prepare returned
scan ==
    /\ pc = "prepared"
    /\ scanCall(text)
    /\ UNCHANGED otherVars

\* one iteration of scan's while loop
scanStep ==
    /\ pc = "scan"
    /\ i < Len(searchText)
    /\ LET nx == scanBody(text, state, searchText, i, j, matches)
       IN /\ i' = nx.i
          /\ j' = nx.j
          /\ matches' = nx.matches
    /\ scanIters' = scanIters + 1
    /\ UNCHANGED <<pc, pattern, options, searchPattern, lps, len, bi, state, text,
                   searchText, result, total, lpsIters>>
    /\ UNCHANGED otherVars

\* the loop ends: scan, and with it findMatches, returns matches
scanReturn ==
    /\ pc = "scan"
    /\ ~(i < Len(searchText))
    /\ result' = matches
    /\ pc' = "scanned"
    /\ UNCHANGED <<pattern, options, searchPattern, lps, len, bi, state, text,
                   searchText, i, j, matches, total, lpsIters, scanIters>>
    /\ UNCHANGED otherVars

-----------------------------------------------------------------------------
(* SearchEngine.countMatches *)

\* countMatches returns { total: matches.length } of the findMatches result
countMatches ==
    /\ pc = "scanned"
    /\ total' = Len(result)
    /\ pc' = "counted"
    /\ UNCHANGED <<pattern, options, searchPattern, lps, len, bi, state, text,
                   searchText, i, j, matches, result, lpsIters, scanIters>>
    /\ UNCHANGED otherVars

Next ==
    \/ prepare
    \/ buildLPSStep
    \/ buildLPSReturn
    \/ scan
    \/ scanStep
    \/ scanReturn
    \/ countMatches

Spec == Init /\ [][Next]_vars

\* The calls are synchronous: a call that has begun runs on until it returns
SpecLive == Spec /\ WF_vars(Next)

-----------------------------------------------------------------------------
(* A caller that prepares once and scans one fragment after another with the
   same prepared state (content.js: highlightMatches, countMatchesOnly) *)

\* the text nodes such a caller goes through
PageTexts == {<<>>, <<97>>, <<97, 97, 97>>, <<65, 32, 97>>, <<304, 97>>}

\* the caller takes the next fragment and calls scan with the state it holds
scanNext ==
    /\ pc = "scanned"
    /\ \E t \in PageTexts : scanCall(t)
    /\ reused' = TRUE
    /\ UNCHANGED <<sharedVars, tabVars, contentVars, browserVars>>

NextReuse ==
    \/ Next
    \/ scanNext

SpecReuse == Init /\ [][NextReuse]_vars

-----------------------------------------------------------------------------
(* Several scan calls that share one prepared state and take their steps in
   any order *)

\* the texts and queries of the shared scans
MaxSharedLen == 3
SharedTexts == SeqsUpTo({32, 97}, MaxSharedLen)
SharedQueries == {<<97>>, <<97, 97>>, <<97, 32, 97>>}

\* Variant of frame in which the locals are declared outside the function
frameShared(c) == 1

\* the locals of call c are its own: let and const inside scan
frame(c) == c

\* the caller prepares the pattern all scans will share
prepareShared ==
    /\ pc = "idle"
    /\ \E q \in SharedQueries, o \in OptionSets :
         /\ pattern' = q
         /\ options' = o
         /\ state' = prepareFn(q, o)
    /\ pc' = "shared"
    /\ UNCHANGED <<searchPattern, lps, len, bi, text, searchText, i, j, matches,
                   result, total, lpsIters, scanIters, reused>>
    /\ UNCHANGED <<sharedVars, tabVars, contentVars, browserVars>>

\* call c of scan(t, state) begins: the guards and the locals before the loop
callScan(c) ==
    /\ pc = "shared"
    /\ calls[c].pc = "none"
    /\ \E t \in SharedTexts :
         IF scanGuard(t, state)
         THEN /\ calls' = [calls EXCEPT ![c] = [pc |-> "returned", text |-> t,
                                                result |-> <<>>]]
              /\ UNCHANGED frames
         ELSE LET sT == searchTextOf(t, state.caseSensitive)
              IN /\ frames' = [frames EXCEPT ![frame(c)] =
                                   [text |-> t, searchText |-> sT, i |-> 0,
                                    j |-> 0, matches |-> <<>>]]
                 /\ calls' = [calls EXCEPT ![c] =
                                  [pc |-> IF state.m > Len(sT) THEN "returned"
                                                               ELSE "scan",
                                   text |-> t, result |-> <<>>]]
    /\ state' = stateRead(state)
    /\ UNCHANGED <<pc, pattern, options, searchPattern, lps, len, bi, text,
                   searchText, i, j, matches, result, total, lpsIters, scanIters,
                   reused>>
    /\ UNCHANGED <<tabVars, contentVars, browserVars>>

\* one iteration of the while loop of call c
callStep(c) ==
    /\ calls[c].pc = "scan"
    /\ LET fr == frames[frame(c)]
       IN /\ fr.i < Len(fr.searchText)
          /\ LET nx == scanBody(fr.text, state, fr.searchText, fr.i, fr.j,
                                fr.matches)
             IN frames' = [frames EXCEPT ![frame(c)] =
                              [fr EXCEPT !.i = nx.i, !.j = nx.j,
                                         !.matches = nx.matches]]
    /\ UNCHANGED <<engineVars, calls, tabVars, contentVars, browserVars>>

\* the loop of call c ends and the call returns its matches
callReturn(c) ==
    /\ calls[c].pc = "scan"
    /\ LET fr == frames[frame(c)]
       IN /\ ~(fr.i < Len(fr.searchText))
          /\ calls' = [calls EXCEPT ![c].pc = "returned", ![c].result = fr.matches]
    /\ UNCHANGED <<engineVars, frames, tabVars, contentVars, browserVars>>

NextShared ==
    \/ prepareShared
    \/ \E c \in Calls : callScan(c)
    \/ \E c \in Calls : callStep(c)
    \/ \E c \in Calls : callReturn(c)

SpecShared == Init /\ [][NextShared]_vars

-----------------------------------------------------------------------------
(* background.js: the search across all tabs. A search stands for a query
   together with its options; what a page answers to the 'count' action for a
   search is countMatchesOnly's { total } for that page. *)

\* the number that is not a number (no count is negative)
NaN == -1

\* acc += counts[f], where a missing property reads as undefined
plusField(acc, counts, f) ==
    IF acc = NaN \/ f \notin DOMAIN counts THEN NaN ELSE acc + counts[f]

\* a + b in numbers
plus(a, b) == IF a = NaN \/ b = NaN THEN NaN ELSE a + b

\* tabResults.forEach(result => { sum += result.counts[f] }) over the entries
\* with keys in S, starting from 0
RECURSIVE sumField(_, _, _)
sumField(map, S, f) ==
    IF S = {} THEN 0
    ELSE LET t == CHOOSE x \in S : TRUE
         IN plusField(sumField(map, S \ {t}, f), map[t].counts, f)

\* map.set(key, value)
mapSet(map, key, value) ==
    [k \in DOMAIN map \cup {key} |-> IF k = key THEN value ELSE map[k]]

\* getSearchableTabs: the open tabs whose URL is not restricted
getSearchableTabs == (OpenTabs \ closedTabs) \ RestrictedTabs

\* content.js, action 'count': countMatchesOnly's result for the page of tab t
countMatchesOnly(t, q) == [total |-> pageCount[t][q]]

\* what can happen to the messages searchInTab sends to a tab: the content
\* script answers (after an injection, if it was not there); it is there but
\* sends no response; chrome.tabs.sendMessage rejects; the injection fails and
\* nobody receives the message
TabOutcomes == {"answers", "notResponding", "sendRejected", "injectFails"}

\* a tab that was closed has no content script to answer
outcomesOf(t) ==
    IF t \in closedTabs THEN TabOutcomes \ {"answers"} ELSE TabOutcomes

\* a null or undefined response
NullResponse == [null |-> TRUE]

\* the content script's answer to the 'count' message
countResponse(t, q) == [success |-> TRUE, counts |-> countMatchesOnly(t, q)]

\* Variant of sendToTab that takes the page's counts whatever happened
sendToTabAnyway(t, q, outcome) == countResponse(t, q)

\* sendToTab(tabId, { action: 'count', ... }): the response, or null when the
\* send is rejected (catch) or nothing is answered
sendToTab(t, q, outcome) ==
    IF outcome = "answers" THEN countResponse(t, q) ELSE NullResponse

\* if (message.options) globalOptions = message.options
optionsIfGiven(o, d) == IF o = NullOptions THEN d ELSE o

\* searchInTab's result: the response's counts, or zeros without a successful
\* response (ensureContentScript catches its own errors)
searchInTabResult(t, q, outcome) ==
    LET response == sendToTab(t, q, outcome)
    IN IF response # NullResponse /\ response.success
       THEN [tabId |-> t, counts |-> response.counts, success |-> TRUE]
       ELSE [tabId |-> t, counts |-> [total |-> 0, exact |-> 0, smart |-> 0],
             success |-> FALSE]

\* the 'searchAll' message r arrives: the listener stores the query and
\* searchAllTabs asks for the tabs
searchAll(r) ==
    /\ requests[r].pc = "none"
    /\ \E q \in TabSearches, o \in BackgroundOptions :
         /\ globalQuery' = q
         /\ globalOptions' = optionsIfGiven(o, globalOptions)
         /\ requests' = [requests EXCEPT ![r] = [pc |-> "getTabs", query |-> q]]
    /\ UNCHANGED <<tabResults, pageCount>>
    /\ UNCHANGED <<engineVars, sharedVars, contentVars, browserVars>>

\* the tabs arrive: searchAllTabs clears tabResults and starts one searchInTab
\* per searchable tab
searchAllTabs(r) ==
    /\ requests[r].pc = "getTabs"
    /\ tabResults' = EmptyMap
    /\ requests' = [requests EXCEPT ![r] =
                        [pc |-> "searching", query |-> requests[r].query,
                         pending |-> getSearchableTabs, responded |-> {},
                         failed |-> {}]]
    /\ UNCHANGED <<globalQuery, globalOptions, pageCount>>
    /\ UNCHANGED <<engineVars, sharedVars, contentVars, browserVars>>

\* searchInTab for tab t settles, with the content script's response or
\* without one, and the tab is entered in tabResults if its total is positive
searchInTab(r, t) ==
    /\ requests[r].pc = "searching"
    /\ t \in requests[r].pending
    /\ \E outcome \in outcomesOf(t) :
         LET res == searchInTabResult(t, requests[r].query, outcome)
         IN /\ tabResults' = IF res.counts.total > 0
                              THEN mapSet(tabResults, t,
                                          [tabId |-> t, counts |-> res.counts])
                              ELSE tabResults
            /\ requests' = [requests EXCEPT
                                ![r].pending = @ \ {t},
                                ![r].responded =
                                    IF res.success THEN @ \cup {t} ELSE @,
                                ![r].failed =
                                    IF res.success THEN @ ELSE @ \cup {t}]
    /\ UNCHANGED <<globalQuery, globalOptions, pageCount>>
    /\ UNCHANGED <<engineVars, sharedVars, contentVars, browserVars>>

\* all searches have settled: searchAllTabs adds up tabResults and the
\* listener sends the result
searchAllTabsReturn(r) ==
    /\ requests[r].pc = "searching"
    /\ requests[r].pending = {}
    /\ LET totalExact == sumField(tabResults, DOMAIN tabResults, "exact")
           totalSmart == sumField(tabResults, DOMAIN tabResults, "smart")
           allResults == [total |-> plus(totalExact, totalSmart),
                          exact |-> totalExact,
                          smart |-> totalSmart,
                          tabCount |-> Cardinality(DOMAIN tabResults),
                          tabs |-> DOMAIN tabResults]
       IN requests' = [requests EXCEPT ![r] =
                          [pc |-> "done", query |-> requests[r].query,
                           responded |-> requests[r].responded,
                           failed |-> requests[r].failed,
                           results |-> allResults,
                           sent |-> <<[success |-> TRUE, results |-> allResults]>>]]
    /\ UNCHANGED <<globalQuery, globalOptions, tabResults, pageCount>>
    /\ UNCHANGED <<engineVars, sharedVars, contentVars, browserVars>>

NextTabs ==
    \/ \E r \in Requests : searchAll(r)
    \/ \E r \in Requests : searchAllTabs(r)
    \/ \E r \in Requests, t \in OpenTabs : searchInTab(r, t)
    \/ \E r \in Requests : searchAllTabsReturn(r)

InitTabs == EngineInit /\ SharedInit /\ BackgroundInit /\ BrowserInit /\ PagesInit /\ ContentBlank

SpecTabs == InitTabs /\ [][NextTabs]_vars

-----------------------------------------------------------------------------
(* The content script (content.js): highlights in the page and navigation.
   document.body is a sequence of elements; each is the sequence of its child
   nodes, a text node or a highlight span with its text inside. A span object
   is known by the dataset.matchIndex it was created with. *)

\* longest text of a page as it was served
MaxPageLen == 3

\* longest text of a page on which a search is still followed
MaxGrownLen == 4

PageAlphabet == {32, 97}
NodeTexts == SeqsUpTo(PageAlphabet, MaxPageLen) \ {<<>>}

\* document.createTextNode(s)
TextNode(s) == [kind |-> "text", text |-> s]

\* the span highlightMatches creates for a match
Span(s, n) == [kind |-> "span", text |-> s, matchIndex |-> n, current |-> FALSE]

ExAa == <<65, 97>>

\* pages with one element or two, each with one text node, and a page with
\* upper and lower case
Pages ==
    {<< <<TextNode(a)>> >> : a \in NodeTexts}
        \cup {<< <<TextNode(a)>>, <<TextNode(b)>> >> :
                <<a, b>> \in {p \in NodeTexts \X NodeTexts :
                                Len(p[1]) + Len(p[2]) <= MaxPageLen}}
        \cup {<< <<TextNode(ExAa)>> >>}

\* the queries and options of the messages sent to the content script
ContentQueries == {<<>>, <<32>>, <<97>>, <<97, 97>>, <<65>>}
MessageOptions == {NullOptions, [caseSensitive |-> TRUE, wholeWord |-> FALSE]}
NewOptions == {[wholeWord |-> TRUE], [caseSensitive |-> FALSE, wholeWord |-> FALSE]}
UnknownActions == {"bogus"}

\* the indexes a 'goToMatch' message may carry
MatchIndexes == -1 .. MaxGrownLen

\* the page is loaded and overlay.js has created the overlay element, whose
\* style.display is not set yet
ContentInit ==
    /\ ContentLoaded
    /\ dom \in Pages
    /\ overlayDisplay = ""

Range(s) == {s[k] : k \in 1..Len(s)}

RECURSIVE textContent(_)
textContent(nodes) ==
    IF nodes = <<>> THEN <<>> ELSE Head(nodes).text \o textContent(Tail(nodes))

RECURSIVE pageLength(_)
pageLength(d) ==
    IF d = <<>> THEN 0 ELSE Len(textContent(Head(d))) + pageLength(Tail(d))

\* the part of the content script's state that highlighting works on
Content ==
    [dom |-> dom, currentMatches |-> currentMatches,
     currentIndex |-> currentIndex, highlightElements |-> highlightElements]

\* el.parentNode.replaceChild(document.createTextNode(el.textContent), el) for
\* the spans in els
unwrap(nodes, els) ==
    [k \in 1..Len(nodes) |->
        IF nodes[k].kind = "span" /\ nodes[k].matchIndex \in Range(els)
        THEN TextNode(nodes[k].text) ELSE nodes[k]]

\* Node.normalize(): empty text nodes removed, adjacent text nodes joined
RECURSIVE normalize(_)
normalize(nodes) ==
    IF nodes = <<>> THEN <<>>
    ELSE LET h == Head(nodes)
             rest == normalize(Tail(nodes))
         IN IF h.kind # "text" THEN <<h>> \o rest
            ELSE IF h.text = <<>> THEN rest
            ELSE IF rest # <<>> /\ Head(rest).kind = "text"
                 THEN <<TextNode(h.text \o Head(rest).text)>> \o Tail(rest)
                 ELSE <<h>> \o rest

\* Variant of clearHighlights that leaves the spans in the page
clearHighlightsKeepSpans(cs) ==
    [dom |-> cs.dom, currentMatches |-> <<>>, currentIndex |-> -1,
     highlightElements |-> <<>>]

clearHighlights(cs) ==
    [dom |-> [b \in 1..Len(cs.dom) |->
                normalize(unwrap(cs.dom[b], cs.highlightElements))],
     currentMatches |-> <<>>,
     currentIndex |-> -1,
     highlightElements |-> <<>>]

\* getTextNodes' filter for the text node n (or the text inside the span n)
acceptNode(n) == Len(trim(n.text)) # 0

\* the fragment that replaces a text node with text t and matches ms, from
\* the k-th match on
RECURSIVE fragment(_, _, _, _, _)
fragment(t, ms, k, lastIndex, matchCount) ==
    IF k > Len(ms)
    THEN IF lastIndex < Len(t) THEN <<TextNode(slice(t, lastIndex, Len(t)))>>
         ELSE <<>>
    ELSE LET m == ms[k]
         IN (IF m.index > lastIndex
             THEN <<TextNode(slice(t, lastIndex, m.index))>> ELSE <<>>)
            \o <<Span(m.text, matchCount)>>
            \o fragment(t, ms, k + 1, m.index + m.length, matchCount + 1)

\* textNodes.forEach(...) over the child nodes of one element; highlightMatches
\* runs after clearHighlights, so the text nodes are the children themselves
RECURSIVE highlightNodes(_, _, _)
highlightNodes(nodes, st, matchCount) ==
    IF nodes = <<>> THEN <<>>
    ELSE LET h == Head(nodes)
             ms == IF h.kind = "text" /\ acceptNode(h) THEN scanFn(h.text, st)
                   ELSE <<>>
         IN (IF Len(ms) = 0 THEN <<h>> ELSE fragment(h.text, ms, 1, 0, matchCount))
            \o highlightNodes(Tail(nodes), st, matchCount + Len(ms))

\* the spans among nodes, in document order
RECURSIVE spans(_)
spans(nodes) ==
    IF nodes = <<>> THEN <<>>
    ELSE (IF Head(nodes).kind = "span" THEN <<Head(nodes)>> ELSE <<>>)
         \o spans(Tail(nodes))

RECURSIVE allSpans(_)
allSpans(d) == IF d = <<>> THEN <<>> ELSE spans(Head(d)) \o allSpans(Tail(d))

RECURSIVE highlightElementsOf(_, _, _)
highlightElementsOf(d, st, matchCount) ==
    IF d = <<>> THEN <<>>
    ELSE LET nodes == highlightNodes(Head(d), st, matchCount)
         IN <<nodes>> \o highlightElementsOf(Tail(d), st, matchCount + Len(spans(nodes)))

\* Variant of updateCurrentHighlight that does not remove the class first
updateCurrentHighlightAdding(cs) ==
    LET add(n) ==
            IF /\ cs.currentIndex >= 0 /\ cs.currentIndex < Len(cs.currentMatches)
               /\ n.kind = "span"
               /\ n.matchIndex = cs.currentMatches[cs.currentIndex + 1].element
            THEN [n EXCEPT !.current = TRUE] ELSE n
    IN [cs EXCEPT !.dom = [b \in 1..Len(cs.dom) |->
                             [k \in 1..Len(cs.dom[b]) |-> add(cs.dom[b][k])]]]

\* updateCurrentHighlight(): the class is removed from every element of
\* highlightElements and added to the current match's element
updateCurrentHighlight(cs) ==
    LET inRange == cs.currentIndex >= 0 /\ cs.currentIndex < Len(cs.currentMatches)
        mark(n) ==
            IF n.kind = "span" /\ n.matchIndex \in Range(cs.highlightElements)
            THEN [n EXCEPT !.current = FALSE] ELSE n
        add(n) ==
            IF /\ inRange
               /\ n.kind = "span"
               /\ n.matchIndex = cs.currentMatches[cs.currentIndex + 1].element
            THEN [n EXCEPT !.current = TRUE] ELSE n
    IN [cs EXCEPT !.dom = [b \in 1..Len(cs.dom) |->
                             [k \in 1..Len(cs.dom[b]) |-> add(mark(cs.dom[b][k]))]]]

\* message.options || searchOptions
optionsOr(o, d) == IF o = NullOptions THEN d ELSE o

highlightMatches(cs, query, o) ==
    LET cleared == clearHighlights(cs)
    IN IF emptyQuery(query) THEN cleared
       ELSE LET st == prepareFn(query, o)
            IN IF st = NullState THEN cleared
               ELSE LET d == highlightElementsOf(cleared.dom, st, 0)
                        found == allSpans(d)
                        marked ==
                            [dom |-> d,
                             currentMatches |->
                                [k \in 1..Len(found) |->
                                    [element |-> found[k].matchIndex,
                                     text |-> found[k].text]],
                             currentIndex |-> -1,
                             highlightElements |->
                                [k \in 1..Len(found) |-> found[k].matchIndex]]
                    IN IF Len(marked.currentMatches) > 0
                       THEN updateCurrentHighlight([marked EXCEPT !.currentIndex = 0])
                       ELSE marked

goToNext(cs) ==
    IF Len(cs.currentMatches) = 0 THEN cs
    ELSE updateCurrentHighlight(
            [cs EXCEPT !.currentIndex = (cs.currentIndex + 1) % Len(cs.currentMatches)])

\* Variant of goToPrevious that does not wrap around
goToPreviousNoWrap(cs) ==
    IF Len(cs.currentMatches) = 0 THEN cs
    ELSE updateCurrentHighlight([cs EXCEPT !.currentIndex = cs.currentIndex - 1])

goToPrevious(cs) ==
    IF Len(cs.currentMatches) = 0 THEN cs
    ELSE updateCurrentHighlight(
            [cs EXCEPT !.currentIndex =
                (cs.currentIndex - 1 + Len(cs.currentMatches)) % Len(cs.currentMatches)])

\* Variant of goToMatch without the range test
goToMatchAny(cs, index) == updateCurrentHighlight([cs EXCEPT !.currentIndex = index])

goToMatch(cs, index) ==
    IF index < 0 \/ index >= Len(cs.currentMatches) THEN cs
    ELSE updateCurrentHighlight([cs EXCEPT !.currentIndex = index])

getMatchCounts(cs) ==
    [total |-> Len(cs.currentMatches), current |-> cs.currentIndex + 1]

\* the text nodes getTextNodes returns: the accepted text nodes of the
\* elements and the accepted texts inside the spans
RECURSIVE scanTotal(_, _)
scanTotal(nodes, st) ==
    IF nodes = <<>> THEN 0
    ELSE (IF acceptNode(Head(nodes)) THEN Len(scanFn(Head(nodes).text, st)) ELSE 0)
         + scanTotal(Tail(nodes), st)

\* Variant of pageTotal that looks at the first element only
pageTotalFirst(d, st) == IF d = <<>> THEN 0 ELSE scanTotal(Head(d), st)

RECURSIVE pageTotal(_, _)
pageTotal(d, st) ==
    IF d = <<>> THEN 0 ELSE scanTotal(Head(d), st) + pageTotal(Tail(d), st)

\* countMatchesOnly(query, options) on the page d
countMatchesOnlyFn(d, query, o) ==
    IF emptyQuery(query) THEN [total |-> 0]
    ELSE LET st == prepareFn(query, o)
         IN IF st = NullState THEN [total |-> 0]
            ELSE [total |-> pageTotal(d, st)]

\* { ...searchOptions, ...newOptions }
spread(a, b) ==
    [f \in DOMAIN a \cup DOMAIN b |-> IF f \in DOMAIN b THEN b[f] ELSE a[f]]

\* the listener's effect on the page and on the matches
becomes(cs) ==
    /\ dom' = cs.dom
    /\ currentMatches' = cs.currentMatches
    /\ currentIndex' = cs.currentIndex
    /\ highlightElements' = cs.highlightElements

\* the default case's response
unknownResponse == [success |-> FALSE, error |-> "Unknown action"]

\* sendResponse(r) for the message with the given action
received(action, r) ==
    /\ message' = [action |-> action]
    /\ answered' = <<r>>

search(query, o) ==
    /\ pageLength(dom) <= MaxGrownLen
    /\ \E cs \in {highlightMatches(Content, query, optionsOr(o, searchOptions))} :
          /\ becomes(cs)
          /\ received("search", [success |-> TRUE, counts |-> getMatchCounts(cs),
                                 query |-> query])
    /\ UNCHANGED <<searchOptions, overlayVisible, overlayDisplay>>
    /\ UNCHANGED <<engineVars, sharedVars, tabVars, browserVars>>

count(query, o) ==
    /\ received("count",
                [success |-> TRUE,
                 counts |-> countMatchesOnlyFn(dom, query, optionsOr(o, searchOptions)),
                 query |-> query])
    /\ UNCHANGED <<dom, currentMatches, currentIndex, highlightElements>>
    /\ UNCHANGED <<searchOptions, overlayVisible, overlayDisplay>>
    /\ UNCHANGED <<engineVars, sharedVars, tabVars, browserVars>>

\* the cases 'next', 'previous' and 'goToMatch'
navigated(action, cs) ==
    /\ becomes(cs)
    /\ received(action, [success |-> TRUE, counts |-> getMatchCounts(cs)])
    /\ UNCHANGED <<searchOptions, overlayVisible, overlayDisplay>>
    /\ UNCHANGED <<engineVars, sharedVars, tabVars, browserVars>>

next == navigated("next", goToNext(Content))

previous == navigated("previous", goToPrevious(Content))

goToMatchMessage(index) == navigated("goToMatch", goToMatch(Content, index))

clear ==
    /\ becomes(clearHighlights(Content))
    /\ received("clear", [success |-> TRUE])
    /\ UNCHANGED <<searchOptions, overlayVisible, overlayDisplay>>
    /\ UNCHANGED <<engineVars, sharedVars, tabVars, browserVars>>

setOptions(newOptions) ==
    /\ searchOptions' = spread(searchOptions, newOptions)
    /\ received("setOptions", [success |-> TRUE, options |-> searchOptions'])
    /\ UNCHANGED <<dom, currentMatches, currentIndex, highlightElements>>
    /\ UNCHANGED <<overlayVisible, overlayDisplay>>
    /\ UNCHANGED <<engineVars, sharedVars, tabVars, browserVars>>

getOptions ==
    /\ received("getOptions", [success |-> TRUE, options |-> searchOptions])
    /\ UNCHANGED <<dom, currentMatches, currentIndex, highlightElements>>
    /\ UNCHANGED <<searchOptions, overlayVisible, overlayDisplay>>
    /\ UNCHANGED <<engineVars, sharedVars, tabVars, browserVars>>

toggleOverlay ==
    /\ IF overlayDisplay # "absent"
       THEN /\ overlayVisible' = ~overlayVisible
            /\ overlayDisplay' = IF overlayVisible' THEN "flex" ELSE "none"
       ELSE UNCHANGED <<overlayVisible, overlayDisplay>>
    /\ received("toggleOverlay", [success |-> TRUE, visible |-> overlayVisible'])
    /\ UNCHANGED <<dom, currentMatches, currentIndex, highlightElements>>
    /\ UNCHANGED searchOptions
    /\ UNCHANGED <<engineVars, sharedVars, tabVars, browserVars>>

ping ==
    /\ received("ping", [success |-> TRUE, ready |-> TRUE])
    /\ UNCHANGED <<dom, currentMatches, currentIndex, highlightElements>>
    /\ UNCHANGED <<searchOptions, overlayVisible, overlayDisplay>>
    /\ UNCHANGED <<engineVars, sharedVars, tabVars, browserVars>>

unknownAction(action) ==
    /\ received(action, unknownResponse)
    /\ UNCHANGED <<dom, currentMatches, currentIndex, highlightElements>>
    /\ UNCHANGED <<searchOptions, overlayVisible, overlayDisplay>>
    /\ UNCHANGED <<engineVars, sharedVars, tabVars, browserVars>>

NextContent ==
    \/ \E query \in ContentQueries, o \in MessageOptions : search(query, o)
    \/ \E query \in ContentQueries, o \in MessageOptions : count(query, o)
    \/ next
    \/ previous
    \/ \E index \in MatchIndexes : goToMatchMessage(index)
    \/ clear
    \/ \E newOptions \in NewOptions : setOptions(newOptions)
    \/ getOptions
    \/ toggleOverlay
    \/ ping
    \/ \E action \in UnknownActions : unknownAction(action)

InitContent == EngineInit /\ SharedInit /\ BackgroundInit /\ BrowserInit /\ PagesBlank /\ ContentInit

SpecContent == InitContent /\ [][NextContent]_vars

-----------------------------------------------------------------------------
(* The message listeners of the background service worker (background.js
   247-303) and of the content script. All cases of the background listener
   run inside one async function: a case that awaits takes two steps, the
   others send their response in the step that receives the message. *)

\* the new options a 'setOptions' message to the background may carry
GlobalNewOptions == {[smartMode |-> FALSE], [wholeWord |-> TRUE]}

\* the pages of the tabs: tab 1 contains "cat", tab 2 contains both queries
PagesSample ==
    pageCount = [t \in OpenTabs |->
                    [q \in TabSearches |-> IF t = 1 /\ q = "dog" THEN 0 ELSE 1]]

\* pages of the tab whose content script is followed
SamplePages == {<< <<TextNode(<<97, 32, 97>>)>> >>, << <<TextNode(<<97, 97, 97>>)>> >>}

\* the message is received by a case that awaits the active tab
awaited(r, action) ==
    /\ requests[r].pc = "none"
    /\ requests' = [requests EXCEPT ![r] = [pc |-> "waiting", action |-> action]]
    /\ UNCHANGED <<tabResults, pageCount>>
    /\ UNCHANGED <<engineVars, sharedVars, contentVars, browserVars>>

searchActive(r) ==
    /\ \E q \in TabSearches, o \in BackgroundOptions :
         /\ globalQuery' = q
         /\ globalOptions' = optionsIfGiven(o, globalOptions)
    /\ awaited(r, "searchActive")

navigate(r) == awaited(r, "navigate") /\ UNCHANGED <<globalQuery, globalOptions>>

clearActive(r) == awaited(r, "clear") /\ UNCHANGED <<globalQuery, globalOptions>>

switchTab(r) == awaited(r, "switchTab") /\ UNCHANGED <<globalQuery, globalOptions>>

\* what the listener sends when the awaited call has returned, with the active
\* tab's answer (ok) or with null, or with switched = ok
awaitedResponse(action, ok) ==
    IF action = "clear" THEN [success |-> TRUE]
    ELSE IF action = "switchTab" THEN [success |-> ok]
    ELSE [success |-> TRUE,
          result |-> IF ok THEN [success |-> TRUE] ELSE NullResponse]

\* highlightActiveTab, navigateMatch, clearActiveTab or switchToTabAndHighlight
\* returns and the listener sends its response
respond(r) ==
    /\ requests[r].pc = "waiting"
    /\ \E ok \in BOOLEAN :
         requests' = [requests EXCEPT ![r] =
                         [pc |-> "done", action |-> requests[r].action,
                          sent |-> <<awaitedResponse(requests[r].action, ok)>>]]
    /\ UNCHANGED <<globalQuery, globalOptions, tabResults, pageCount>>
    /\ UNCHANGED <<engineVars, sharedVars, contentVars, browserVars>>

\* the message is received by a case that sends its response at once
answeredAtOnce(r, action, response) ==
    /\ requests[r].pc = "none"
    /\ requests' = [requests EXCEPT ![r] =
                       [pc |-> "done", action |-> action, sent |-> <<response>>]]
    /\ UNCHANGED <<globalQuery, tabResults, pageCount>>
    /\ UNCHANGED <<engineVars, sharedVars, contentVars, browserVars>>

getTabResults(r) ==
    /\ answeredAtOnce(r, "getTabResults",
                      [success |-> TRUE,
                       tabs |-> {tabResults[t] : t \in DOMAIN tabResults},
                       query |-> globalQuery,
                       options |-> globalOptions])
    /\ UNCHANGED globalOptions

setGlobalOptions(r) ==
    \E newOptions \in GlobalNewOptions :
        /\ globalOptions' = spread(globalOptions, newOptions)
        /\ answeredAtOnce(r, "setOptions", [success |-> TRUE, options |-> globalOptions'])

getGlobalOptions(r) ==
    /\ answeredAtOnce(r, "getOptions", [success |-> TRUE, options |-> globalOptions])
    /\ UNCHANGED globalOptions

\* Variant of the default case that resets the query
unknownMessageResets(r) ==
    /\ requests[r].pc = "none"
    /\ requests' = [requests EXCEPT ![r] =
                       [pc |-> "done", action |-> "bogus", sent |-> <<unknownResponse>>]]
    /\ globalQuery' = ""
    /\ UNCHANGED <<globalOptions, tabResults, pageCount>>
    /\ UNCHANGED <<engineVars, sharedVars, contentVars, browserVars>>

unknownMessage(r) ==
    /\ \E action \in UnknownActions : answeredAtOnce(r, action, unknownResponse)
    /\ UNCHANGED globalOptions

NextBackground ==
    \/ NextTabs
    \/ \E r \in Requests : searchActive(r)
    \/ \E r \in Requests : navigate(r)
    \/ \E r \in Requests : clearActive(r)
    \/ \E r \in Requests : switchTab(r)
    \/ \E r \in Requests : respond(r)
    \/ \E r \in Requests : getTabResults(r)
    \/ \E r \in Requests : setGlobalOptions(r)
    \/ \E r \in Requests : getGlobalOptions(r)
    \/ \E r \in Requests : unknownMessage(r)

\* the two listeners run in different processes and have no variable in
\* common, so a step of one never changes what the other does: the runs
\* followed are those in which one of the two handles messages
BackgroundIdle == \A r \in Requests : requests[r].pc = "none"
ContentIdle == message = NoMessage

NextListeners ==
    \/ BackgroundIdle /\ NextContent
    \/ ContentIdle /\ NextBackground

InitListeners ==
    /\ EngineInit /\ SharedInit /\ BackgroundInit /\ BrowserInit /\ PagesSample
    /\ ContentLoaded /\ dom \in SamplePages /\ overlayDisplay = ""

SpecListeners == InitListeners /\ [][NextListeners]_vars


-----------------------------------------------------------------------------
(* Tabs that are closed while the background works (background.js 311-314) *)

\* Variant of mapDelete that keeps the entry
mapKeep(map, key) == map

\* Map.delete(key)
mapDelete(map, key) == [k \in DOMAIN map \ {key} |-> map[k]]

\* chrome.tabs.onRemoved fires for tab t
onRemoved(t) ==
    /\ t \in OpenTabs \ closedTabs
    /\ closedTabs' = closedTabs \cup {t}
    /\ tabResults' = mapDelete(tabResults, t)
    /\ UNCHANGED <<globalQuery, globalOptions, requests, pageCount>>
    /\ UNCHANGED <<injections, ensures, overlayVars, searchVars>>
    /\ UNCHANGED <<engineVars, sharedVars, contentVars>>

NextClosing ==
    \/ NextTabs
    \/ \E t \in OpenTabs : onRemoved(t)
    \/ \E r \in Requests : getTabResults(r)

InitClosing ==
    EngineInit /\ SharedInit /\ BackgroundInit /\ BrowserInit /\ PagesSample /\ ContentBlank

SpecClosing == InitClosing /\ [][NextClosing]_vars


-----------------------------------------------------------------------------
(* ensureContentScript (background.js 62-84) as called by the operations of
   the background: a ping, the injection when the ping was not answered, and
   then the operation's own message to the tab. *)

\* the operations that call ensureContentScript and the message each sends
\* to the tab afterwards
Operations ==
    {[name |-> "searchAll", action |-> "count"],
     [name |-> "searchActive", action |-> "search"],
     [name |-> "switchTab", action |-> "search"],
     [name |-> "toggle-search", action |-> "toggleOverlay"],
     [name |-> "onClicked", action |-> "toggleOverlay"]}

\* the tabs the operations work on
InjectTabs == OpenTabs \ RestrictedTabs

\* an operation calls ensureContentScript(t), which sends the ping
ensureContentScript(c) ==
    /\ ensures[c].pc \in {"idle", "sent"}
    /\ \E op \in Operations, t \in InjectTabs :
         ensures' = [ensures EXCEPT ![c] = [pc |-> "ping", op |-> op, tabId |-> t]]
    /\ UNCHANGED <<closedTabs, injections, overlayVars, searchVars>>
    /\ UNCHANGED <<engineVars, sharedVars, tabVars, contentVars>>

\* the ping comes back: if (response?.ready) return true
pingAnswered(c) ==
    /\ ensures[c].pc = "ping"
    /\ ensures' = [ensures EXCEPT ![c].pc =
                       IF injections[ensures[c].tabId] > 0 THEN "send" ELSE "inject"]
    /\ UNCHANGED <<closedTabs, injections, overlayVars, searchVars>>
    /\ UNCHANGED <<engineVars, sharedVars, tabVars, contentVars>>

\* chrome.scripting.executeScript and insertCSS: content.js runs in the tab
\* and adds its listener, or the injection is refused (catch: return false)
executeScript(c) ==
    /\ ensures[c].pc = "inject"
    /\ \E ok \in BOOLEAN :
         injections' = [injections EXCEPT ![ensures[c].tabId] = IF ok THEN @ + 1 ELSE @]
    /\ ensures' = [ensures EXCEPT ![c].pc = "send"]
    /\ UNCHANGED <<closedTabs, overlayVars, searchVars>>
    /\ UNCHANGED <<engineVars, sharedVars, tabVars, contentVars>>

\* the operation's message reaches the tab and every listener that content.js
\* has added handles it
sendMessage(c) ==
    /\ ensures[c].pc = "send"
    /\ ensures' = [ensures EXCEPT ![c] =
                       [pc |-> "sent", op |-> ensures[c].op, tabId |-> ensures[c].tabId,
                        handledBy |-> injections[ensures[c].tabId]]]
    /\ UNCHANGED <<closedTabs, injections, overlayVars, searchVars>>
    /\ UNCHANGED <<engineVars, sharedVars, tabVars, contentVars>>

NextInject ==
    \/ \E c \in Callers : ensureContentScript(c)
    \/ \E c \in Callers : pingAnswered(c)
    \/ \E c \in Callers : executeScript(c)
    \/ \E c \in Callers : sendMessage(c)

SpecInject == Init /\ [][NextInject]_vars


-----------------------------------------------------------------------------
(* The overlay (overlay.js) in its page: the debounced search input and the
   showing and hiding of the overlay, by the 'toggleOverlay' message, which
   the listeners of content.js and of overlay.js both handle, and by the keys
   and the close button. *)

\* the delay of the search input's timer, and the step of the clock, in ms
Delay == 150
Tick == 50

\* the clock stops after MaxTicks steps
MaxTicks == 6

\* what may be typed into the search input
InputValues == {"", "c", "ca"}

\* the input's 'input' listener: clearTimeout(searchTimeout), setTimeout(..., 150)
input(v) ==
    /\ v # inputValue
    /\ inputValue' = v
    /\ searchTimeout' = [due |-> now + Delay]
    /\ lastInput' = now
    /\ inBurst' = (lastInput >= 0 /\ now - lastInput < Delay)
    /\ performed' = <<>>
    /\ UNCHANGED <<now, listeners>>
    /\ UNCHANGED <<closedTabs, injections, ensures, searchVars>>
    /\ UNCHANGED <<engineVars, sharedVars, tabVars, contentVars>>

\* Variant of the timer that may run before its delay is over
timerDueAtOnce(t) == TRUE

\* the timer t may run: its delay is over
timerDue(t) == now >= t.due

\* the timer runs: performSearch(e.target.value), with the input's value now
timeout ==
    /\ searchTimeout # NoTimer
    /\ timerDue(searchTimeout)
    /\ performed' = Append(performed, [value |-> inputValue, at |-> now])
    /\ searchTimeout' = NoTimer
    /\ UNCHANGED <<now, inputValue, lastInput, inBurst, listeners>>
    /\ UNCHANGED <<closedTabs, injections, ensures, searchVars>>
    /\ UNCHANGED <<engineVars, sharedVars, tabVars, contentVars>>

\* time passes
tick ==
    /\ now < MaxTicks * Tick
    /\ now' = now + Tick
    /\ UNCHANGED <<inputValue, searchTimeout, lastInput, inBurst, performed, listeners>>
    /\ UNCHANGED <<closedTabs, injections, ensures, searchVars>>
    /\ UNCHANGED <<engineVars, sharedVars, tabVars, contentVars>>

\* the overlay as the two scripts see it
Overlay == [visible |-> overlayVisible, display |-> overlayDisplay]

\* content.js toggleOverlay()
contentToggleOverlay(ov) ==
    IF ov.display = "absent" THEN ov
    ELSE [visible |-> ~ov.visible, display |-> IF ~ov.visible THEN "flex" ELSE "none"]

\* overlay.js showOverlay(), hideOverlay() and toggleOverlay()
showOverlay(ov) == [ov EXCEPT !.display = "flex"]

hideOverlay(ov) == IF ov.display = "absent" THEN ov ELSE [ov EXCEPT !.display = "none"]

overlayToggleOverlay(ov) ==
    IF ov.display = "flex" THEN hideOverlay(ov) ELSE showOverlay(ov)

\* one listener handles the 'toggleOverlay' message
handled(script, ov) ==
    IF script = "content" THEN contentToggleOverlay(ov) ELSE overlayToggleOverlay(ov)

\* and calls sendResponse
toggleResponse(script, ov) ==
    [success |-> TRUE,
     visible |-> IF script = "content" THEN ov.visible ELSE ov.display = "flex"]

\* the overlay after a step, and what leaves it alone
shows(ov) ==
    /\ overlayVisible' = ov.visible
    /\ overlayDisplay' = ov.display
    /\ UNCHANGED <<dom, currentMatches, currentIndex, highlightElements, searchOptions>>
    /\ UNCHANGED overlayVars
    /\ UNCHANGED <<closedTabs, injections, ensures, searchVars>>
    /\ UNCHANGED <<engineVars, sharedVars, tabVars>>

\* a 'toggleOverlay' message arrives: the listeners run in the order they
\* were added, and each calls sendResponse
toggleMessage ==
    LET first == handled(listeners[1], Overlay)
        second == handled(listeners[2], first)
    IN /\ shows(second)
       /\ message' = [action |-> "toggleOverlay"]
       /\ answered' = <<toggleResponse(listeners[1], first),
                        toggleResponse(listeners[2], second)>>

\* Ctrl+Shift+F in the page: handleGlobalKeydown calls toggleOverlay()
keyToggle ==
    /\ shows(overlayToggleOverlay(Overlay))
    /\ message' = [action |-> "Ctrl+Shift+F"]
    /\ answered' = <<>>

\* Escape in the search input, or a click on the close button: hideOverlay()
escape ==
    /\ shows(hideOverlay(Overlay))
    /\ message' = [action |-> "Escape"]
    /\ answered' = <<>>

closeClick ==
    /\ shows(hideOverlay(Overlay))
    /\ message' = [action |-> "close"]
    /\ answered' = <<>>

NextOverlay ==
    \/ \E v \in InputValues : input(v)
    \/ timeout
    \/ tick
    \/ toggleMessage
    \/ keyToggle
    \/ escape
    \/ closeClick

\* both scripts are loaded in the page, in either order, and overlay.js has
\* created the overlay element
InitOverlay ==
    /\ EngineInit /\ SharedInit /\ BackgroundInit /\ PagesBlank
    /\ closedTabs = {}
    /\ injections = [t \in {1, 2, 3} |-> 0]
    /\ ensures = [c \in Callers |-> NoEnsure]
    /\ now = 0 /\ inputValue = "" /\ searchTimeout = NoTimer /\ lastInput = -1
    /\ inBurst = FALSE /\ performed = <<>>
    /\ SearchesIdle
    /\ listeners \in {<<"content", "overlay">>, <<"overlay", "content">>}
    /\ ContentLoaded /\ dom = <<>> /\ overlayDisplay = ""

SpecOverlay == InitOverlay /\ [][NextOverlay]_vars

-----------------------------------------------------------------------------
(* Searches of the overlay that are under way together: overlay.js
   performSearch, the background's 'searchActive' and 'clear', and the content
   script's 'search' and 'clear'.  Each await of a search is a step of its
   own, and the steps of different searches run in any order. *)

\* most performSearch calls in one run
MaxSearches == 2

\* the page of the active tab: one element with the text "a a"
LatestPage == << <<TextNode(<<97, 32, 97>>)>> >>

\* values of the search input: empty, "a", "A"
LatestQueries == {<<>>, <<97>>, <<65>>}

\* the settings with a checkbox that searches again
Settings == {"caseSensitive", "wholeWord"}

\* overlay.js: options, as the script starts
OverlayOptions == [smartMode |-> TRUE, caseSensitive |-> FALSE, wholeWord |-> FALSE]

\* overlay.js: options now, which the last performSearch call has used
overlayOptions ==
    IF searches = <<>> THEN OverlayOptions ELSE searches[Len(searches)].options

\* the text performSearch writes for the counts of a response
counterOf(counts) ==
    IF counts.total > 0
    THEN [text |-> "of", current |-> counts.current, total |-> counts.total]
    ELSE [text |-> "No results"]

\* overlay.js performSearch up to its await: an empty query writes the counter
\* and sends 'clear', any other sends 'searchActive'
performSearch(query, o) ==
    /\ Len(searches) < MaxSearches
    /\ IF emptyQuery(query)
       THEN /\ counterText' = ZeroResults
            /\ searches' = Append(searches, [action |-> "clear", query |-> query,
                                             options |-> o, pc |-> "sent"])
       ELSE /\ counterText' = counterText
            /\ searches' = Append(searches, [action |-> "searchActive", query |-> query,
                                             options |-> o, pc |-> "sent"])
    /\ inputValue' = query
    /\ UNCHANGED <<now, searchTimeout, lastInput, inBurst, performed, listeners>>
    /\ UNCHANGED <<closedTabs, injections, ensures>>
    /\ UNCHANGED <<engineVars, sharedVars, tabVars, contentVars>>

\* the timer of the input runs: performSearch(e.target.value)
typed(v) == performSearch(v, overlayOptions)

\* a 'change' of a settings checkbox: the option is set, performSearch(input.value)
settingChanged(name) ==
    performSearch(inputValue, [overlayOptions EXCEPT ![name] = ~@])

\* search k has been made and is at position p
at(k, p) == k \in DOMAIN searches /\ searches[k].pc = p

\* search k moves on to position p
moves(k, p) == searches' = [searches EXCEPT ![k].pc = p]

\* background.js listener: 'searchActive' sets globalQuery and globalOptions and
\* calls highlightActiveTab, 'clear' calls clearActiveTab; both await tabs.query
backgroundReceives(k) ==
    /\ at(k, "sent")
    /\ moves(k, "tabs.query")
    /\ IF searches[k].action = "searchActive"
       THEN /\ globalQuery' = searches[k].query
            /\ globalOptions' = optionsIfGiven(searches[k].options, globalOptions)
       ELSE UNCHANGED <<globalQuery, globalOptions>>
    /\ UNCHANGED <<tabResults, requests, pageCount, counterText>>
    /\ UNCHANGED <<closedTabs, injections, ensures, overlayVars>>
    /\ UNCHANGED <<engineVars, sharedVars, contentVars>>

\* a step of a search that changes its position only
awaitOver(k, from, to) ==
    /\ at(k, from)
    /\ moves(k, to)
    /\ UNCHANGED counterText
    /\ UNCHANGED <<closedTabs, injections, ensures, overlayVars>>
    /\ UNCHANGED <<engineVars, sharedVars, tabVars, contentVars>>

\* tabs.query has answered: highlightActiveTab goes on to ensureContentScript,
\* clearActiveTab sends 'clear' to the tab
tabsQueried(k) ==
    awaitOver(k, "tabs.query",
              IF searches[k].action = "searchActive" THEN "ping" ELSE "tab")

\* the content script has answered the ping: 'search' is sent to the tab
pinged(k) == awaitOver(k, "ping", "tab")

\* the page after the content script has handled the message of search s
tabHandles(s) ==
    IF s.action = "searchActive"
    THEN highlightMatches(Content, s.query, optionsOr(s.options, searchOptions))
    ELSE clearHighlights(Content)

\* the response of the content script to the message of search s
tabResponds(s, cs) ==
    IF s.action = "searchActive"
    THEN [success |-> TRUE, counts |-> getMatchCounts(cs), query |-> s.query]
    ELSE [success |-> TRUE]

\* content.js listener: 'search' or 'clear' of search k
handledInTab(k) ==
    /\ at(k, "tab")
    /\ \E cs \in {tabHandles(searches[k])} :
          /\ becomes(cs)
          /\ \E r \in {tabResponds(searches[k], cs)} :
                /\ received(IF searches[k].action = "searchActive"
                            THEN "search" ELSE "clear", r)
                /\ searches' = [searches EXCEPT ![k] =
                                  [action |-> @.action, query |-> @.query,
                                   options |-> @.options, pc |-> "answered",
                                   result |-> r]]
    /\ UNCHANGED <<searchOptions, overlayVisible, overlayDisplay, counterText>>
    /\ UNCHANGED <<closedTabs, injections, ensures, overlayVars>>
    /\ UNCHANGED <<engineVars, sharedVars, tabVars>>

\* the background's response { success: true, result } reaches the overlay:
\* performSearch goes on after its await and writes the counter; the response
\* to 'clear' is not looked at
responseArrives(k) ==
    /\ at(k, "answered")
    /\ moves(k, "done")
    /\ counterText' = IF searches[k].action = "searchActive"
                      THEN counterOf(searches[k].result.counts)
                      ELSE counterText
    /\ UNCHANGED <<closedTabs, injections, ensures, overlayVars>>
    /\ UNCHANGED <<engineVars, sharedVars, tabVars, contentVars>>

NextLatest ==
    \/ \E v \in LatestQueries : typed(v)
    \/ \E name \in Settings : settingChanged(name)
    \/ \E k \in 1..MaxSearches : backgroundReceives(k)
    \/ \E k \in 1..MaxSearches : tabsQueried(k)
    \/ \E k \in 1..MaxSearches : pinged(k)
    \/ \E k \in 1..MaxSearches : handledInTab(k)
    \/ \E k \in 1..MaxSearches : responseArrives(k)

\* the overlay is open on the page, nothing typed
InitLatest ==
    /\ EngineInit /\ SharedInit /\ BackgroundInit /\ PagesBlank
    /\ closedTabs = {}
    /\ injections = [t \in {1, 2, 3} |-> 1]
    /\ ensures = [c \in Callers |-> NoEnsure]
    /\ now = 0 /\ inputValue = <<>> /\ searchTimeout = NoTimer /\ lastInput = -1
    /\ inBurst = FALSE /\ performed = <<>>
    /\ listeners = <<"overlay", "content">>
    /\ SearchesIdle
    /\ ContentLoaded /\ dom = LatestPage /\ overlayDisplay = "flex"

SpecLatest == InitLatest /\ [][NextLatest]_vars

-----------------------------------------------------------------------------
(* Definitions used to state the properties *)

\* scan (and findMatches) has returned
Returned == pc \in {"scanned", "counted"}

\* scan ran on a present fragment with a prepared pattern
Scanned == Returned /\ state # NullState /\ ~Falsy(text)

\* the offsets (`index`) of a sequence of matches
Offsets(ms) == {ms[k].index : k \in 1..Len(ms)}

\* all zero-based positions at which P occurs in T (naive matcher)
Occurrences(T, P) ==
    {s \in 0..(Len(T) - Len(P)) : SubSeq(T, s + 1, s + Len(P)) = P}

\* the fragment under the active case rule
CaseView(T, caseSensitive) == IF caseSensitive THEN T ELSE toLowerCase(T)

\* a word character: ASCII A-Z, a-z, 0-9 or '_'
WordChar(c) ==
    c \in (65..90) \cup (97..122) \cup (48..57) \cup {95}

\* the neighbour of a match at zero-based k of the fragment T is a boundary:
\* there is no character there, or it is not a word character
BoundaryAt(T, k) == k < 0 \/ k >= Len(T) \/ ~WordChar(T[k + 1])

-----------------------------------------------------------------------------
(* C1: without whole-word filtering and with |P| <= |T|, the offsets scan
   returns are exactly the positions at which the prepared searchPattern
   occurs in the fragment under the active case rule (the fragment lower-cased
   unless caseSensitive): nothing missed, nothing spurious. *)
C1_ScanEqualsNaive ==
    (Scanned /\ ~state.wholeWord /\ state.m <= Len(text))
        => Offsets(result) =
             Occurrences(CaseView(text, state.caseSensitive), state.searchPattern)

\* a scan that reported two occurrences and passed over a non-occurrence
C1_Witness ==
    /\ Scanned /\ ~state.wholeWord /\ state.m <= Len(text)
    /\ Len(result) >= 2
    /\ Cardinality(Offsets(result)) < Len(searchText) - state.m + 1
    /\ scanIters >= Len(searchText)

(* C2: with wholeWord, scan reports offset s if and only if the pattern occurs
   at s under the active case rule and the fragment's characters at s-1 and at
   s+m are both word boundaries (anything but A-Z, a-z, 0-9, '_'; a missing
   neighbour is a boundary). "cat" in "cat catalog category" is reported at 0
   only with wholeWord, and at 0, 4, 12 without. *)
C2_WholeWord ==
    /\ (Scanned /\ state.wholeWord)
         => Offsets(result) =
              {s \in Occurrences(CaseView(text, state.caseSensitive),
                                 state.searchPattern) :
                   BoundaryAt(text, s - 1) /\ BoundaryAt(text, s + state.m)}
    /\ (Returned /\ text = ExCats /\ pattern = ExCat)
         => Offsets(result) = IF options.wholeWord THEN {0} ELSE {0, 4, 12}

\* a whole-word scan that kept one occurrence and rejected another
C2_Witness ==
    /\ Scanned /\ state.wholeWord
    /\ Len(result) >= 1
    /\ Cardinality(Offsets(result)) <
         Cardinality(Occurrences(CaseView(text, state.caseSensitive),
                                 state.searchPattern))

(* C3: with caseSensitive false the query and the fragment are both lower-cased
   before comparison, so an occurrence is matched whatever its letter case; with
   caseSensitive true only exact-case occurrences match. Every reported offset
   is such an occurrence, and without whole-word filtering every such occurrence
   is reported. "hello" in "Hello hello HELLO": offset 6 only when
   caseSensitive, three matches otherwise. *)
C3_CaseRule ==
    /\ Scanned =>
         LET occ == IF options.caseSensitive
                    THEN Occurrences(text, trim(pattern))
                    ELSE Occurrences(toLowerCase(text), toLowerCase(trim(pattern)))
         IN /\ Offsets(result) \subseteq occ
            /\ ~options.wholeWord => Offsets(result) = occ
    /\ (Returned /\ text = ExHello3 /\ pattern = ExHello /\ ~options.wholeWord)
         => /\ options.caseSensitive => Offsets(result) = {6}
            /\ ~options.caseSensitive => Len(result) = 3

\* a case-insensitive scan that matched an occurrence written in another case
C3_Witness ==
    /\ Scanned /\ ~options.caseSensitive
    /\ \E k \in 1..Len(result) :
         /\ result[k].index + state.m <= Len(text)
         /\ SubSeq(text, result[k].index + 1, result[k].index + state.m)
              # trim(pattern)

(* C4: overlapping occurrences are all reported, because the pattern pointer
   continues from lps[m-1] after a full match: "ABA" in "ABABAB" is reported at
   0 and 2 (length 3 each), "AA" in "AAAA" at 0, 1, 2; in general two reported
   matches may be closer together than m. *)
C4_Overlaps ==
    /\ (Returned /\ text = ExABABAB /\ pattern = ExABA /\ ~options.wholeWord)
         => /\ [k \in 1..Len(result) |-> result[k].index] = <<0, 2>>
            /\ \A k \in 1..Len(result) : result[k].length = 3
    /\ (Returned /\ text = ExAAAA /\ pattern = ExAA /\ ~options.wholeWord)
         => [k \in 1..Len(result) |-> result[k].index] = <<0, 1, 2>>
    /\ (Scanned /\ ~state.wholeWord)
         => \A s \in Occurrences(searchText, state.searchPattern) :
              \A t \in Occurrences(searchText, state.searchPattern) :
                 (s < t /\ t < s + state.m) => {s, t} \subseteq Offsets(result)

\* a scan that returned two matches whose ranges overlap
C4_Witness ==
    /\ Scanned
    /\ \E k \in 1..(Len(result) - 1) :
         result[k + 1].index < result[k].index + state.m

(* C5: the matches scan returns are in strictly increasing offset order, so no
   two of them share an offset. *)
C5_StrictlyIncreasing ==
    Returned =>
        \A k \in 1..(Len(result) - 1) : result[k].index < result[k + 1].index

\* a scan that returned at least two matches
C5_Witness == Scanned /\ Len(result) >= 2


(* C6: every match scan returns has length m, lies inside the fragment
   (0 <= index and index + m <= |fragment|), and its text is the slice
   [index, index+m) of the original fragment, so that the source casing is kept:
   the first match of "foo" in "FOO bar" has text "FOO". *)
C6_MatchIsSliceOfFragment ==
    /\ Scanned =>
         \A k \in 1..Len(result) :
            /\ result[k].length = state.m
            /\ 0 <= result[k].index
            /\ result[k].index + state.m <= Len(text)
            /\ result[k].text =
                 SubSeq(text, result[k].index + 1, result[k].index + state.m)
            /\ Len(result[k].text) = state.m
    /\ (Returned /\ text = ExFOObar /\ pattern = ExFoo /\ ~options.caseSensitive)
         => Len(result) >= 1 /\ result[1].text = <<70, 79, 79>>

\* the longest proper prefix of w that is also a suffix of w
LongestBorder(w) ==
    CHOOSE l \in 0..(Len(w) - 1) :
        /\ SubSeq(w, 1, l) = SubSeq(w, Len(w) - l + 1, Len(w))
        /\ \A l2 \in (l + 1)..(Len(w) - 1) :
             SubSeq(w, 1, l2) # SubSeq(w, Len(w) - l2 + 1, Len(w))

\* prepare has returned
Prepared == pc \in {"prepared", "scan", "scanned", "counted"}

(* C7: the failure table of a prepared pattern p of length m has exactly m
   entries, lps[0] = 0, and lps[i] is the length of the longest proper prefix of
   p[0..i] that is also a suffix of it (so lps[i] <= i). *)
C7_FailureTable ==
    (Prepared /\ state # NullState) =>
        /\ state.m = Len(state.searchPattern)
        /\ state.m >= 1
        /\ Len(state.lps) = state.m
        /\ state.lps[1] = 0
        /\ \A k \in 0..(state.m - 1) :
             /\ state.lps[k + 1] = LongestBorder(SubSeq(state.searchPattern, 1, k + 1))
             /\ state.lps[k + 1] <= k

\* a table whose construction fell back to a shorter, non-empty prefix and
\* extended it
C7_Witness ==
    /\ Prepared /\ state # NullState
    /\ \E k \in 1..(state.m - 1) :
         /\ state.lps[k] >= 2
         /\ state.lps[k + 1] >= 2
         /\ state.lps[k + 1] <= state.lps[k]
    /\ lpsIters > state.m - 1

\* the query is empty or consists of white space only
Blank(q) == q # Absent /\ \A k \in 1..Len(q) : IsWhiteSpace(q[k])

(* C8: prepare returns null for an empty or white-space-only query and
   otherwise a state whose normalized pattern is non-empty; hence findMatches
   with such a query returns the empty sequence and countMatches total 0. *)
C8_BlankQueryIsAbsent ==
    /\ (Prepared /\ Blank(pattern)) => state = NullState
    /\ (Prepared /\ pattern # Absent /\ ~Blank(pattern))
         => /\ state # NullState
            /\ Len(state.searchPattern) > 0
    /\ Blank(pattern) => pc \in {"idle", "prepared", "scanned", "counted"}
    /\ (Returned /\ Blank(pattern)) => result = <<>>
    /\ (pc = "counted" /\ Blank(pattern)) => total = 0

\* countMatches of a present fragment with a white-space-only query has returned
C8_Witness ==
    /\ pc = "counted" /\ total = 0
    /\ Blank(pattern) /\ Len(pattern) >= 1
    /\ ~Falsy(text)

\* scan has been called
ScanCalled == pc \in {"scan", "scanned", "counted", "threw"}

(* C9: scan returns the empty sequence, not an error, whenever the fragment is
   empty or absent or the prepared pattern is absent. *)
C9_AbsentInputsGiveEmpty ==
    (ScanCalled /\ (Falsy(text) \/ state = NullState))
        => Returned /\ result = <<>> /\ scanIters = 0

\* scan has returned for an absent fragment and a prepared pattern
C9_Witness == Returned /\ text = Absent /\ state # NullState /\ result = <<>>

(* C10: when the normalized length of the pattern exceeds the length of the
   fragment, scan returns the empty sequence at once, without entering the scan
   loop: findMatches("ab", "abc") is empty. *)
C10_LongPatternGivesEmpty ==
    (ScanCalled /\ state # NullState /\ ~Falsy(text) /\ state.m > Len(text))
        => Returned /\ result = <<>> /\ scanIters = 0

(* C11: no call of prepare, scan, findMatches or countMatches throws, whatever
   the arguments (absent, null, empty or non-default values included). *)
C11_NeverThrows == pc \notin {"threw", "prepareThrew"}

(* C12: scan never changes the prepared pattern: original, searchPattern, lps,
   m, caseSensitive and wholeWord are the same after every step of every scan
   call as before it, however many fragments are scanned with it. *)
C12_ScanKeepsState == [][Prepared => state' = state]_vars

\* a second scan with the same prepared state has returned a match
C12_Witness ==
    /\ reused /\ pc = "scanned"
    /\ state # NullState /\ state = prepareFn(pattern, options)
    /\ state.original # toLowerCase(state.original)
    /\ Len(result) >= 1

(* C13: findMatches(text, query, options) returns what scan returns for the
   fragment and the state prepare(query, options) returns, and countMatches
   returns as total the length of that sequence, an integer >= 0. *)
C13_FindIsScanOfPrepare ==
    /\ Returned
         => /\ ~findMatchesThrows(pattern, options)
            /\ result = findMatchesFn(text, pattern, options)
    /\ pc = "counted"
         => /\ [total |-> total] = countMatchesFn(text, pattern, options)
            /\ total = Len(result)
            /\ total \in Nat

\* countMatches has returned a total of two matches found with non-default
\* options
C13_Witness ==
    /\ pc = "counted" /\ total = 2
    /\ options \in OptionSets /\ options.caseSensitive /\ options.wholeWord

(* C16: scan keeps no match history: with one prepared pattern used for one
   fragment after another, in any order, the result for a fragment is what scan
   computes from that fragment and the pattern alone, and equals a fresh
   findMatches on that fragment. *)
C16_NoMatchHistory ==
    (Returned /\ reused)
        => /\ result = scanFn(text, state)
           /\ ~findMatchesThrows(pattern, options)
           /\ result = findMatchesFn(text, pattern, options)

\* a later scan with the same prepared state has gone through its loop and
\* returned fewer matches than the fragment has characters
C16_Witness ==
    /\ reused /\ Returned /\ scanIters >= 3
    /\ Len(result) >= 1 /\ Len(result) < Len(text)

\* the query without its leading and trailing white space: what lies between
\* its first and its last character that is not white space
Trimmed(q) ==
    LET black == {k \in 1..Len(q) : ~IsWhiteSpace(q[k])}
    IN IF black = {} THEN <<>>
       ELSE SubSeq(q, CHOOSE k \in black : \A l \in black : k <= l,
                      CHOOSE k \in black : \A l \in black : k >= l)

(* C14: prepare(q, o) is prepare(trim(q), o): leading and trailing white space
   of the query is ignored. The prepared state's original is the trimmed query
   with its case preserved, its searchPattern is that query, lower-cased unless
   caseSensitive, and its m is the length of searchPattern. *)
C14_PrepareTrims ==
    /\ (Prepared /\ pattern # Absent)
         => state = prepareFn(Trimmed(pattern), options)
    /\ (Prepared /\ state # NullState)
         => /\ state.original = Trimmed(pattern)
            /\ state.searchPattern = IF options.caseSensitive
                                     THEN state.original
                                     ELSE toLowerCase(state.original)
            /\ state.m = Len(state.searchPattern)
            /\ state.caseSensitive = options.caseSensitive
            /\ state.wholeWord = options.wholeWord

\* a case-sensitive prepare of a query with an upper-case letter and white
\* space around it has returned
C14_Witness ==
    /\ Prepared /\ state # NullState
    /\ Len(state.original) < Len(pattern)
    /\ options.caseSensitive
    /\ state.original # toLowerCase(state.original)

\* what is left of scan's loop: twice the characters to read, plus the
\* pattern pointer
ScanRank == 2 * (Len(searchText) - i) + j

\* what is left of buildLPS's loop
LpsRank == 2 * (Len(searchPattern) - bi) + len

\* every iteration makes progress and the loops end at the end of their input
LoopProgress ==
    /\ (pc = "scan" /\ pc' = "scan")
         => /\ i' > i \/ (i' = i /\ j' < j)
            /\ i' <= Len(searchText) /\ j' >= 0
            /\ ScanRank' < ScanRank
    /\ (pc = "scan" /\ pc' = "scanned") => i = Len(searchText)
    /\ (pc = "buildLPS" /\ pc' = "buildLPS")
         => /\ bi' > bi \/ (bi' = bi /\ len' < len)
            /\ bi' <= Len(searchPattern) /\ len' >= 0
            /\ LpsRank' < LpsRank
    /\ (pc = "buildLPS" /\ pc' = "prepared") => bi = Len(searchPattern)

(* C17: every call terminates. Each iteration of scan's loop either advances
   the text pointer i or strictly decreases the pattern pointer j, each
   iteration of buildLPS's loop either advances i or strictly decreases len, so
   a non-negative measure falls with every iteration; the loops end exactly at
   i = n and i = m, and a call that has begun returns. *)
C17_Terminates ==
    /\ [][LoopProgress]_vars
    /\ (pc = "buildLPS") ~> (pc = "prepared")
    /\ (pc = "scan") ~> (pc = "scanned")

\* a scan has returned after iterations that fell back in the pattern without
\* advancing in the text, for a pattern whose table took such iterations too
C17_Witness ==
    /\ pc = "scanned" /\ state # NullState
    /\ scanIters > Len(searchText)
    /\ lpsIters > state.m - 1

(* C18: scanning is linear: for a fragment of length n the scan loop runs at
   most 2n iterations, buildLPS runs at most 2m iterations for a pattern of
   length m, and the table is built once, in prepare: however many fragments
   are scanned, no further iteration of buildLPS is run and the table stays the
   one prepare stored. *)
C18_Linear ==
    /\ text # Absent => scanIters <= 2 * Len(text)
    /\ lpsIters <= 2 * Len(searchPattern)
    /\ (Prepared /\ state # NullState)
         => /\ state.lps = lps
            /\ lpsIters <= 2 * state.m

\* the prepared state with the wholeWord option the other way round
OtherWholeWord == [state EXCEPT !.wholeWord = ~state.wholeWord]

\* the matches of ms that pass scan's boundary check, in their order
PassingBoundaryCheck(ms) ==
    LET Passes(mt) ==
            validMatch(text, [state EXCEPT !.wholeWord = TRUE], Len(searchText),
                       mt.index)
    IN SelectSeq(ms, Passes)

(* C19: rejecting a candidate by the whole word check does not disturb the
   scan: for every fragment and query the (i, j) pointer states scan goes
   through are the same with wholeWord true as with wholeWord false, and the
   wholeWord result is the result without wholeWord with the candidates failing
   the boundary check removed, in the same order. *)
C19_RejectionKeepsPointers ==
    /\ pc = "scan"
         => LET tr == scanPointers(text, OtherWholeWord)
            IN /\ scanIters + 1 <= Len(tr)
               /\ tr[scanIters + 1] = <<i, j>>
               /\ i = Len(searchText) => Len(tr) = scanIters + 1
    /\ (Scanned /\ state.wholeWord)
         => result = PassingBoundaryCheck(scanFn(text, OtherWholeWord))

\* a whole word scan has returned after rejecting a candidate that overlaps
\* an accepted or another rejected one
C19_Witness ==
    /\ Scanned /\ state.wholeWord
    /\ Len(result) < Len(scanFn(text, OtherWholeWord))
    /\ At(state.lps, state.m - 1) > 0

(* C15: scan calls that share one prepared pattern and take their steps in any
   order each return what the call returns when it runs alone, and the shared
   pattern stays what prepare returned. *)
C15_SharedScansAreIndependent ==
    /\ \A c \in Calls :
         calls[c].pc = "returned" => calls[c].result = scanFn(calls[c].text, state)
    /\ pc = "shared" => state = prepareFn(pattern, options)

\* one call has returned a match while another, begun before that return on a
\* different fragment, is in its loop and has found one
C15_Witness ==
    /\ calls[1].pc = "returned" /\ Len(calls[1].result) >= 1
    /\ calls[2].pc = "scan" /\ calls[2].text # calls[1].text
    /\ frames[2].i > 0 /\ frames[2].i < Len(frames[2].searchText)
    /\ Len(frames[2].matches) >= 1

\* the sum of the totals the pages of the tabs in S answer for search q
RECURSIVE SumOfTotals(_, _)
SumOfTotals(S, q) ==
    IF S = {} THEN 0
    ELSE LET t == CHOOSE x \in S : TRUE
         IN pageCount[t][q] + SumOfTotals(S \ {t}, q)

(* C20: the total in the result of searchAllTabs is the sum, over the
   searchable tabs that responded, of the total the tab's content script
   returned for the 'count' action, and tabCount is the number of tabs whose
   total is positive. *)
C20_TotalIsSumOverTabs ==
    \A r \in Requests :
        requests[r].pc = "done"
            => /\ requests[r].results.total =
                     SumOfTotals(requests[r].responded, requests[r].query)
               /\ requests[r].results.tabCount =
                     Cardinality({t \in requests[r].responded :
                                     pageCount[t][requests[r].query] > 0})

\* the positions at which the iteration of scan's loop that starts with the
\* pointers i and j reads searchText, searchPattern and lps are positions of
\* these (zero-based, as read by the source)
ReadsInRange ==
    LET n == Len(searchText)
        m == state.m
        eq == At(searchText, i) = At(state.searchPattern, j)
        i1 == IF eq THEN i + 1 ELSE i
        j1 == IF eq THEN j + 1 ELSE j
        inText(k) == 0 <= k /\ k < n
        inPattern(k) == 0 <= k /\ k < Len(state.searchPattern)
        inTable(k) == 0 <= k /\ k < Len(state.lps)
    IN /\ inText(i) /\ inPattern(j)
       /\ j1 = m => inTable(j1 - 1)
       /\ (j1 # m /\ i1 < n)
            => /\ inText(i1) /\ inPattern(j1)
               /\ (At(searchText, i1) # At(state.searchPattern, j1) /\ j1 # 0)
                    => inTable(j1 - 1)

(* C23: during scan the text pointer i never moves backward and ends at n, and
   at the head of every loop iteration 0 <= j < m, so that searchPattern[j]
   and lps[j - 1] are read at valid positions only. *)
C23_PointersInRange ==
    /\ pc = "scan"
         => /\ 0 <= i /\ i <= Len(searchText)
            /\ 0 <= j /\ j <= state.m
            /\ i < Len(searchText)
                 => /\ j < state.m
                    /\ ReadsInRange
                    /\ scanBody(text, state, searchText, i, j, matches).i >= i
    /\ (pc = "scanned" /\ scanIters > 0) => i = Len(searchText)

\* the loop is at the head of an iteration after one that fell back in the
\* pattern without advancing in the text, with a match already found
C23_Witness ==
    /\ pc = "scan" /\ i < Len(searchText)
    /\ scanIters > i /\ j > 0
    /\ Len(matches) >= 1

\* the tabs whose searchInTab has failed for request req
FailedOf(req) == IF "failed" \in DOMAIN req THEN req.failed ELSE {}

\* no other 'searchAll' message has been received
Alone(r) == \A r2 \in Requests \ {r} : requests[r2].pc = "none"

\* a failing tab counts as zero matches: the step in which a searchInTab
\* fails leaves tabResults as it was
FailureAddsNothing ==
    \A r \in Requests :
        FailedOf(requests'[r]) # FailedOf(requests[r]) => tabResults' = tabResults

(* C21: a tab that fails (the content script does not respond, the send is
   rejected, or the injection fails) counts as zero matches and raises no
   error: searchInTab resolves to { tabId, counts with total 0, success: false }
   for it, the tab is not added to tabResults, every tab settles, and
   searchAllTabs completes with the results of the other tabs. *)
C21_FailedTabIsZeroMatches ==
    /\ [](\A t \in OpenTabs, q \in TabSearches, o \in TabOutcomes \ {"answers"} :
            searchInTabResult(t, q, o) =
                [tabId |-> t, counts |-> [total |-> 0, exact |-> 0, smart |-> 0],
                 success |-> FALSE])
    /\ [](\A r \in Requests :
            requests[r].pc \in {"searching", "done"}
                => /\ requests[r].responded \cap requests[r].failed = {}
                   /\ requests[r].responded \cup requests[r].failed
                        \cup (IF requests[r].pc = "searching"
                              THEN requests[r].pending ELSE {})
                        = getSearchableTabs
                   /\ requests[r].failed \cap DOMAIN tabResults
                        \subseteq UNION {requests[r2].responded :
                                            r2 \in {x \in Requests \ {r} :
                                                requests[x].pc \in
                                                    {"searching", "done"}}})
    /\ [](\A r \in Requests :
            (requests[r].pc = "done" /\ Alone(r))
                => /\ requests[r].results.tabs =
                        {t \in requests[r].responded :
                            pageCount[t][requests[r].query] > 0}
                   /\ requests[r].results.tabCount =
                        Cardinality(requests[r].results.tabs))
    /\ [][FailureAddsNothing]_vars

\* a search has completed in which one tab failed and the other one, with a
\* match, is in the result
C21_Witness ==
    \E r \in Requests :
        /\ requests[r].pc = "done" /\ Alone(r)
        /\ requests[r].failed # {}
        /\ \E t \in requests[r].failed : pageCount[t][requests[r].query] > 0
        /\ requests[r].results.tabCount = 1

(* C30: overlapping 'searchAll' requests do not mix their results: whatever
   the interleaving, the tabs list and tabCount returned for a query hold
   exactly the tabs that answered with a positive count for that query, and
   no entry left by another query in flight. *)
C30_ResultsOfOwnQuery ==
    \A r \in Requests :
        requests[r].pc = "done"
            => /\ requests[r].results.tabs =
                    {t \in requests[r].responded :
                        pageCount[t][requests[r].query] > 0}
               /\ requests[r].results.tabCount =
                    Cardinality({t \in requests[r].responded :
                                    pageCount[t][requests[r].query] > 0})

\* the text of every element of the page is the same after the step
TextKept ==
    /\ Len(dom') = Len(dom)
    /\ \A b \in 1..Len(dom) : textContent(dom'[b]) = textContent(dom[b])

(* C22: highlighting preserves the page text: whatever the matches of a text
   node are, overlapping ones included, the texts of the fragment's nodes
   concatenated are the node's original text, and clearHighlights restores
   that text; so no message handled by the content script changes the text
   of an element of the page. *)
C22_HighlightingKeepsText == [][TextKept]_vars

\* the answer to the last message carries getMatchCounts()
CountsAnswered == answered[1].counts = getMatchCounts(Content)

(* C24: the navigation index is always valid: after any sequence of search,
   count, next, previous, goToMatch and clear messages either there are no
   matches and currentIndex is -1, or 0 <= currentIndex < number of matches;
   getMatchCounts gives current = 0 when total = 0 and 1 <= current <= total
   otherwise; highlightElements is as long as currentMatches. *)
C24_IndexInRange ==
    /\ \/ currentMatches = <<>> /\ currentIndex = -1
       \/ 0 <= currentIndex /\ currentIndex < Len(currentMatches)
    /\ LET c == getMatchCounts(Content)
       IN /\ c.total = Len(currentMatches)
          /\ IF c.total = 0 THEN c.current = 0
             ELSE 1 <= c.current /\ c.current <= c.total
    /\ Len(highlightElements) = Len(currentMatches)
    /\ message.action \in {"search", "next", "previous", "goToMatch"} => CountsAnswered

\* a 'goToMatch' message has moved to the second of several matches
C24_Witness ==
    /\ message.action = "goToMatch"
    /\ Len(currentMatches) >= 2
    /\ currentIndex = 1

\* goToNext applied n times
RECURSIVE nexts(_, _)
nexts(cs, n) == IF n = 0 THEN cs ELSE nexts(goToNext(cs), n - 1)

\* what one navigation message does to currentIndex, with k matches
NavigationStep ==
    LET k == Len(currentMatches)
    IN /\ message'.action = "next"
            => currentIndex' = IF k = 0 THEN currentIndex ELSE (currentIndex + 1) % k
       /\ message'.action = "previous"
            => currentIndex' = IF k = 0 THEN currentIndex
                               ELSE (currentIndex - 1 + k) % k
       /\ message'.action \in {"next", "previous", "goToMatch"}
            => /\ currentMatches' = currentMatches
               /\ k = 0 => currentIndex' = currentIndex
               /\ currentIndex' # currentIndex => currentIndex' \in 0 .. k - 1

(* C25: navigation is cyclic: with k > 0 matches and current index t, next
   gives (t + 1) mod k and previous gives (t - 1 + k) mod k, each undoes the
   other, and k times next comes back to t; without matches both leave the
   state as it is; goToMatch with an index outside 0..k-1 leaves it as it is. *)
C25_NavigationIsCyclic ==
    /\ [](LET k == Len(currentMatches)
          IN /\ goToPrevious(goToNext(Content)) = Content
             /\ goToNext(goToPrevious(Content)) = Content
             /\ nexts(Content, k) = Content
             /\ k = 0 => goToNext(Content) = Content /\ goToPrevious(Content) = Content
             /\ \A index \in MatchIndexes \ (0 .. k - 1) :
                    goToMatch(Content, index) = Content
             /\ \A index \in MatchIndexes \cap (0 .. k - 1) :
                    goToMatch(Content, index).currentIndex = index)
    /\ [][NavigationStep]_vars

\* 'previous' has wrapped around from the first match to the last of several
C25_Witness ==
    /\ message.action = "previous"
    /\ Len(currentMatches) >= 2
    /\ currentIndex = Len(currentMatches) - 1

\* the positions, among the spans of the page, of those with the current class
CurrentSpans == {k \in 1..Len(allSpans(dom)) : allSpans(dom)[k].current}

(* C26: a search that finds at least one match selects the first one
   (currentIndex = 0, current = 1); after every search and navigation exactly
   one highlight element carries the current class, the element of
   currentMatches[currentIndex], and none does when there are no matches. *)
C26_OneCurrentHighlight ==
    /\ (message.action = "search" /\ Len(currentMatches) >= 1)
            => currentIndex = 0 /\ answered[1].counts.current = 1
    /\ IF Len(currentMatches) = 0 THEN CurrentSpans = {}
       ELSE /\ Cardinality(CurrentSpans) = 1
            /\ \A k \in CurrentSpans :
                    allSpans(dom)[k].matchIndex = currentMatches[currentIndex + 1].element

\* 'next' has moved the current class from the first match to the second
C26_Witness ==
    /\ message.action = "next"
    /\ currentIndex = 1
    /\ Len(allSpans(dom)) >= 2
    /\ CurrentSpans = {2}

\* a 'count' message leaves the matches and the page alone
CountStep ==
    message'.action = "count"
        => /\ currentMatches' = currentMatches
           /\ currentIndex' = currentIndex
           /\ highlightElements' = highlightElements
           /\ dom' = dom

(* C27: 'count' does not touch the page: it leaves currentMatches,
   currentIndex, highlightElements and the DOM unchanged; on the same text
   nodes (a page without highlights), with the same query and options, its
   total is the total a 'search' reports, the sum of the lengths of the scans
   of the text nodes. *)
C27_CountLeavesPageAlone ==
    /\ [][CountStep]_vars
    /\ [](allSpans(dom) = <<>>
            => \A query \in ContentQueries, o \in MessageOptions :
                    countMatchesOnlyFn(dom, query, optionsOr(o, searchOptions)).total
                        = getMatchCounts(highlightMatches(
                              Content, query, optionsOr(o, searchOptions))).total)

\* 'count' has found two matches on a page that shows highlights
C27_Witness ==
    /\ message.action = "count"
    /\ answered[1].counts.total >= 2
    /\ Len(currentMatches) >= 1

(* C28: clearing is complete: after 'clear', and after a 'search' with an
   empty or white-space query, the page has no highlight element,
   currentMatches is empty, currentIndex is -1 and getMatchCounts is
   { total: 0, current: 0 }, whatever the state was before; a new search
   discards the previous highlights first, so the highlight elements in the
   page are always those of highlightElements. *)
C28_ClearIsComplete ==
    /\ (\/ message.action = "clear"
        \/ message.action = "search" /\ emptyQuery(answered[1].query))
            => /\ allSpans(dom) = <<>>
               /\ currentMatches = <<>>
               /\ highlightElements = <<>>
               /\ currentIndex = -1
               /\ getMatchCounts(Content) = [total |-> 0, current |-> 0]
    /\ highlightElements = [k \in 1..Len(allSpans(dom)) |-> allSpans(dom)[k].matchIndex]

\* a search with a white-space query has been answered
C28_Witness ==
    /\ message.action = "search"
    /\ answered[1].query = <<32>>
    /\ answered[1].counts = [total |-> 0, current |-> 0]

\* the sendResponse calls made so far for a message to the background
SentOf(req) == IF "sent" \in DOMAIN req THEN req.sent ELSE <<>>

\* the message of request req went to the default case
IsUnknown(req) == "action" \in DOMAIN req /\ req.action \in UnknownActions

\* the steps that continue the handling of the r-th message
handle(r) ==
    \/ searchAllTabs(r)
    \/ \E t \in OpenTabs : searchInTab(r, t)
    \/ searchAllTabsReturn(r)
    \/ respond(r)

\* a message to the default case leaves the state of its listener as it was
UnknownChangesNothing ==
    /\ (message'.action \in UnknownActions)
            => UNCHANGED <<dom, currentMatches, currentIndex, highlightElements,
                           searchOptions, overlayVisible, overlayDisplay>>
    /\ \A r \in Requests :
            (requests[r].pc = "none" /\ IsUnknown(requests'[r]))
                => UNCHANGED <<tabResults, globalQuery, globalOptions>>

(* C29: every message gets exactly one response: the content script's
   listener has called sendResponse once when it returns; the background's
   listener has called it once when the handling of a message is over and not
   before, and the handling of a received message can always go on; a message
   with an unknown action is answered { success: false, error: 'Unknown
   action' } and leaves matches, index, options, tabResults and globalQuery
   unchanged. *)
C29_OneResponsePerMessage ==
    /\ [](message.action # "none" => Len(answered) = 1)
    /\ [](message.action \in UnknownActions => answered = <<unknownResponse>>)
    /\ [](\A r \in Requests :
            /\ Len(SentOf(requests[r])) = IF requests[r].pc = "done" THEN 1 ELSE 0
            /\ requests[r].pc \notin {"none", "done"} => ENABLED handle(r)
            /\ (requests[r].pc = "done" /\ IsUnknown(requests[r]))
                    => requests[r].sent = <<unknownResponse>>)
    /\ [][UnknownChangesNothing]_vars

\* a message with an unknown action has been answered by the background
\* while the results of a search were there
C29_Witness ==
    \E r \in Requests :
        /\ requests[r].pc = "done" /\ IsUnknown(requests[r])
        /\ requests[r].sent = <<unknownResponse>>
        /\ tabResults # EmptyMap
        /\ globalQuery # ""

\* a 'getTabResults' message answered in this step lists no closed tab
ClosedTabsNotListed ==
    \A r \in Requests :
        (/\ requests[r].pc = "none"
         /\ requests'[r].pc = "done"
         /\ "action" \in DOMAIN requests'[r]
         /\ requests'[r].action = "getTabResults")
            => \A e \in requests'[r].sent[1].tabs : e.tabId \notin closedTabs'

(* C35: a closed tab is forgotten: once chrome.tabs.onRemoved has fired for
   a tab, tabResults has no entry for it and no 'getTabResults' response
   lists it, also when the tab is closed while a searchAll is in flight. *)
C35_ClosedTabForgotten ==
    /\ [](DOMAIN tabResults \cap closedTabs = {})
    /\ [][ClosedTabsNotListed]_vars

\* a tab with a match answered a search that is still in flight and was
\* closed afterwards
C35_Witness ==
    \E r \in Requests : \E t \in closedTabs :
        /\ requests[r].pc = "searching"
        /\ t \in requests[r].responded
        /\ pageCount[t][requests[r].query] > 0
        /\ requests[r].pending # {}

(* C31: the content script is injected into a tab at most once, whatever the
   interleaving of the operations that call ensureContentScript, so a message
   to a tab is handled by one content-script listener and no more. *)
C31_InjectedAtMostOnce ==
    /\ \A t \in InjectTabs : injections[t] <= 1
    /\ \A c \in Callers : ensures[c].pc = "sent" => ensures[c].handledBy <= 1

(* C32: the search is debounced: in a burst of 'input' events, each less than
   150 ms after the one before, no search is made for an intermediate value;
   after the last event the timer makes exactly one performSearch call, not
   before 150 ms have passed, and with the value the input has then. *)
C32_Debounced ==
    /\ Len(performed) <= 1
    /\ \A k \in 1..Len(performed) :
            /\ performed[k].at - lastInput >= Delay
            /\ performed[k].value = inputValue
    /\ (lastInput >= 0 /\ now - lastInput < Delay) => performed = <<>>
    /\ IF lastInput >= 0 /\ performed = <<>>
       THEN searchTimeout = [due |-> lastInput + Delay]
       ELSE searchTimeout = NoTimer

\* the timer has made its call after a burst that ended with "ca"
C32_Witness ==
    /\ inBurst
    /\ Len(performed) = 1
    /\ performed[1].value = "ca"
    /\ performed[1].at >= lastInput + Delay

\* the overlay is displayed
Displayed == overlayDisplay = "flex"

\* a request to toggle flips the overlay between hidden and displayed
ToggleFlips ==
    message'.action \in {"toggleOverlay", "Ctrl+Shift+F"}
        => (overlayDisplay' = "flex") # (overlayDisplay = "flex")

(* C34: the overlay is toggled consistently: after any sequence of
   'toggleOverlay' messages, Ctrl+Shift+F presses, Escape presses and clicks
   on the close button, each toggle request has flipped the overlay between
   hidden and displayed once, and the visible value of the 'toggleOverlay'
   response and the content script's overlayVisible flag say whether the
   overlay is displayed. *)
C34_ToggleIsConsistent ==
    /\ [](overlayVisible = Displayed)
    /\ [](message.action = "toggleOverlay"
            => \A k \in 1..Len(answered) : answered[k].visible = Displayed)
    /\ [][ToggleFlips]_vars



\* the searches made have all completed
AllCompleted ==
    searches # <<>> /\ \A k \in 1..Len(searches) : searches[k].pc = "done"

\* the search made last
Latest == searches[Len(searches)]

\* the page after a search of the query and options made last, and nothing else
LatestAlone ==
    highlightMatches([dom |-> LatestPage, currentMatches |-> <<>>, currentIndex |-> -1,
                      highlightElements |-> <<>>],
                     Latest.query, Latest.options)

\* C33: once all searches the overlay has made are completed, the highlights of
\* the page and the text of the counter are those of the query and options of
\* the search made last, however the steps of the searches were ordered
C33_LatestQueryWins ==
    AllCompleted =>
        \E alone \in {LatestAlone} :
            /\ allSpans(dom) = allSpans(alone.dom)
            /\ currentMatches = alone.currentMatches
            /\ currentIndex = alone.currentIndex
            /\ counterText = IF emptyQuery(Latest.query) THEN ZeroResults
                             ELSE counterOf(getMatchCounts(alone))

=============================================================================
